---- MODULE Spec2Model ----
(***************************************************************************)
(* Model of avocado_report.py: the extraction of performance metrics from  *)
(* Avocado debug logs (prefix stripping, stdout stream reconstruction,     *)
(* embedded JSON blocks, the metric passes of parse_metrics_from_debuglog  *)
(* and the per-test records of build_records_for_job).                     *)
(*                                                                         *)
(* Text is modelled at the level of lexemes: a line is a sequence of       *)
(* strings, each one the smallest unit that the regular expressions and    *)
(* the JSON parser of the program tell apart (the tag "[stdlog]", one      *)
(* whitespace character " ", a date, a time, "|", a JSON punctuation mark, *)
(* a quoted JSON string, a numeral, a word).  Adjacent lexemes are         *)
(* adjacent in the text; whitespace is always an explicit lexeme.  A log   *)
(* text is the sequence of its lines (text.splitlines()).                  *)
(***************************************************************************)
EXTENDS Integers, Sequences, FiniteSets, TLC

VARIABLES
    line,       \* strip_stdlog: the raw line handed to the first call
    once,       \* strip_stdlog(line)
    twice,      \* strip_stdlog(strip_stdlog(line))
    spc,        \* "raw", "once", "twice": how often strip_stdlog has run
    slog,       \* _extract_stdout_stream: text.splitlines()
    sk,         \* _extract_stdout_stream: number of lines the loop has handled
    sout,       \* _extract_stdout_stream: out
    blog,       \* _extract_embedded_json_block: text.splitlines()
    bmarker,    \* _extract_embedded_json_block: marker
    eb,         \* _extract_embedded_json_block: its position (pc), the loop
                \* indices i and j (0-based, as in the code), payload_lines
                \* and the value returned
    bcut,       \* whether blog is a log cut off after the lookahead window,
                \* handed to the function after the uncut log
    bfirst,     \* the value returned for the uncut log
    debug_text, \* parse_metrics_from_debuglog: debug_text.splitlines()
    test_name,  \* parse_metrics_from_debuglog: test_name
    files,      \* the files that exist, with their contents
    ppc,        \* parse_metrics_from_debuglog: the pass that runs next, or
                \* "returned", or "raised" when an exception left the function
    m,          \* parse_metrics_from_debuglog: m
    job_dir_given, \* main: whether --job-dir was given (args.job_dir)
    tests,      \* build_records_for_job: the test entries of results.json
    jk,         \* build_records_for_job: number of entries the loop has handled
    rows,       \* build_records_for_job: rows
    jpc,        \* main, for one job directory, and its call of
                \* build_records_for_job: "main", "ignored", "loop",
                \* "returned", "raised", "extended", "caught"
    all_rows,   \* main: all_rows
    ck,         \* _collect_json_objects_from_stream: number of lines of the
                \* stream (sout) the loop has handled
    cst,        \* _collect_json_objects_from_stream: objs, buf, collecting
    fres,       \* step 7 of parse_metrics_from_debuglog: what the call of
                \* _fio_metrics_from_json gave ([raised, res]), <<>> before it
    tpc,        \* StorageUserspaceTests: for each test process, where it is
                \* in setUp, the test and tearDown
    flock,      \* the process that holds the exclusive flock on the lock
                \* file of the device, 0 when none does
    spdk_setup, \* for each test process, hasattr(self, "spdk_setup")
    lock_fd,    \* for each test process, whether self._lock_fd is set
    setup_sh    \* whether scripts/setup.sh exists under SPDK_PATH

stripVars == <<line, once, twice, spc>>
streamVars == <<slog, sk, sout>>
blockVars == <<blog, bmarker, eb, bcut, bfirst>>
pipeVars == <<debug_text, test_name, files, ppc, m>>
jobVars == <<job_dir_given, tests, jk, rows, jpc, all_rows>>
collectVars == <<ck, cst, fres>>
lockVars == <<tpc, flock, spdk_setup, lock_fd, setup_sh>>
vars == <<stripVars, streamVars, blockVars, pipeVars, jobVars, collectVars, lockVars>>

\* The variables an operation of one function leaves alone: those of the
\* other functions.
NotStrip == <<streamVars, blockVars, pipeVars, jobVars, collectVars, lockVars>>
NotStream == <<stripVars, blockVars, pipeVars, jobVars, collectVars, lockVars>>
NotBlock == <<stripVars, streamVars, pipeVars, jobVars, collectVars, lockVars>>
NotPipe == <<stripVars, streamVars, blockVars, jobVars, collectVars, lockVars>>
NotJob == <<stripVars, streamVars, blockVars, pipeVars, collectVars, lockVars>>
NotCollect == <<stripVars, streamVars, blockVars, pipeVars, jobVars, lockVars>>
NotLock == <<stripVars, streamVars, blockVars, pipeVars, jobVars, collectVars>>

StripIdle == line = <<>> /\ once = <<>> /\ twice = <<>> /\ spc = "idle"
StreamIdle == slog = <<>> /\ sk = 0 /\ sout = <<>>
BlockIdle == blog = <<>> /\ bmarker = "" /\ eb = <<>> /\ bcut = FALSE /\ bfirst = <<>>
PipeIdle == debug_text = <<>> /\ test_name = <<>> /\ files = <<>> /\ ppc = "idle" /\ m = <<>>
JobIdle ==
    /\ job_dir_given = FALSE /\ tests = <<>> /\ jk = 0 /\ rows = <<>> /\ jpc = "idle"
    /\ all_rows = <<>>
CollectIdle == ck = 0 /\ cst = <<>> /\ fres = <<>>
LockIdle ==
    /\ tpc = <<>> /\ flock = 0 /\ spdk_setup = <<>> /\ lock_fd = <<>>
    /\ setup_sh = FALSE

\* ------------------------------------------------------------------ bounds

\* Longest payload (in lexemes) appended to a line head in the raw lines
\* handed to strip_stdlog.
MaxPayloadLen == 3

\* Longest log (in lines) handed to _extract_stdout_stream.
MaxStreamLen == 3

\* How far the number of blank lines between a marker line and its block
\* goes below and above the number that puts the block at the end of the
\* lookahead window.
PadSlack == 2

\* Most log lines that precede the marker line of a logged block.
MaxPreLines == 1

\* Longest log on which a whole call of _extract_embedded_json_block is
\* evaluated inside a formula.
MaxEvalLen == 40

\* Most test entries in the results.json of a job.
MaxTests == 2

\* ------------------------------------------------------------------ lexemes

Tag == "[stdlog]"
Space == " "
Pipe == "|"
DateLexemes == {"2026-01-14"}
TimeLexemes == {"21:12:20,986"}

IsSpace(t) == t = Space
IsDate(t) == t \in DateLexemes
IsTime(t) == t \in TimeLexemes

SeqsUpTo(S, n) == UNION {[1..k -> S] : k \in 0..n}

MinOf(S) == CHOOSE p \in S : \A q \in S : p <= q

\* ------------------------------------------------------------------ str.strip()

\* End of the run of whitespace that a greedy \s+ (or \s*) consumes from
\* index i on: i-1 when s[i] is no whitespace.
RECURSIVE SpaceRunEnd(_, _)
SpaceRunEnd(s, i) ==
    IF i <= Len(s) /\ IsSpace(s[i]) THEN SpaceRunEnd(s, i + 1) ELSE i - 1

\* Start of the run of whitespace that ends at index i: i+1 when s[i] is
\* no whitespace.
RECURSIVE SpaceRunStart(_, _)
SpaceRunStart(s, i) ==
    IF i >= 1 /\ IsSpace(s[i]) THEN SpaceRunStart(s, i - 1) ELSE i + 1

\* Index of the first non-whitespace lexeme, Len(s)+1 when there is none.
FirstNonSpace(s) == SpaceRunEnd(s, 1) + 1

\* Index of the last non-whitespace lexeme, 0 when there is none.
LastNonSpace(s) == SpaceRunStart(s, Len(s)) - 1

\* s.strip(): leading and trailing whitespace removed.
str_strip(s) == SubSeq(s, FirstNonSpace(s), LastNonSpace(s))

\* s.rstrip(): trailing whitespace removed.
str_rstrip(s) == SubSeq(s, 1, LastNonSpace(s))

\* ------------------------------------------------------------------ strip_stdlog

\* _STDLOG_FULL_RE.match(s): the index at which the match ends, 0 when the
\* line does not match
\*   ^\[stdlog\]\s+ DATE \s+ TIME \s+ [^|]+ \| \s+
\* [^|]+ cannot cross a "|", so the "|" of the match is the first one after
\* the time; \s+ and [^|]+ before it need one whitespace and one more
\* lexeme; the trailing \s+ is greedy.
STDLOG_FULL_RE(s) ==
    IF Len(s) = 0 \/ s[1] # Tag THEN 0 ELSE
    LET a == SpaceRunEnd(s, 2) IN
    IF a < 2 \/ a + 1 > Len(s) \/ ~IsDate(s[a+1]) THEN 0 ELSE
    LET b == SpaceRunEnd(s, a + 2) IN
    IF b < a + 2 \/ b + 1 > Len(s) \/ ~IsTime(s[b+1]) THEN 0 ELSE
    LET tm == b + 1
        pipes == {p \in (tm+1)..Len(s) : s[p] = Pipe}
    IN  IF pipes = {} THEN 0 ELSE
        LET p == MinOf(pipes)
            e == SpaceRunEnd(s, p + 1)
        IN  IF IsSpace(s[tm+1]) /\ p >= tm + 3 /\ e >= p + 1 THEN e ELSE 0

\* _STDLOG_CONT_RE.match(s): the index at which ^\[stdlog\]\s+ ends, 0 when
\* the line does not match.
STDLOG_CONT_RE(s) ==
    IF Len(s) >= 2 /\ s[1] = Tag /\ IsSpace(s[2]) THEN SpaceRunEnd(s, 2) ELSE 0

\* A plausible slip: the continuation form tried before the full form.
strip_stdlog_ContFirst(s) ==
    IF STDLOG_CONT_RE(s) > 0
    THEN str_strip(SubSeq(s, STDLOG_CONT_RE(s) + 1, Len(s)))
    ELSE IF STDLOG_FULL_RE(s) > 0
    THEN str_strip(SubSeq(s, STDLOG_FULL_RE(s) + 1, Len(s)))
    ELSE str_strip(s)

strip_stdlog(s) ==
    LET Cut(full, cont) ==
            IF full > 0 THEN str_strip(SubSeq(s, full + 1, Len(s)))
            ELSE IF cont > 0 THEN str_strip(SubSeq(s, cont + 1, Len(s)))
            ELSE str_strip(s)
    IN  Cut(STDLOG_FULL_RE(s), STDLOG_CONT_RE(s))

\* ------------------------------------------------------------------ raw lines

FullPrefix ==
    <<Tag, Space, "2026-01-14", Space, "21:12:20,986", Space,
      "avocado.test", Space, "INFO", Space, Pipe, Space>>

\* What a raw line may start with: nothing, the tag alone, the continuation
\* prefix, the full prefix, and near misses of both.
LineHeads ==
    { <<>>,
      <<Tag>>,
      <<Tag, Space, Space>>,
      <<Space, Tag, Space>>,
      FullPrefix,
      <<Space>> \o FullPrefix,
      <<Tag, Space, "2026-01-14", Space, "21:12:20,986", Space, "INFO", Pipe>>,
      <<Tag, Space, "2026-01-14", Space, "21:12:20,986", Space, Pipe, Space>>,
      <<Tag, Space, "2026-01-14", Space, "21:12:20,986", Space, Space, Pipe, Space>>,
      <<Tag, Space, "2026-01-14", Space, "INFO", Space, Pipe, Space>>,
      <<Tag, "2026-01-14", Space, "21:12:20,986", Space, "INFO", Space, Pipe, Space>> }

PayloadLexemes == {Space, Pipe, Tag, "x", "{"}

RawLines == {h \o p : h \in LineHeads, p \in SeqsUpTo(PayloadLexemes, MaxPayloadLen)}

\* ------------------------------------------------------------------ SpecStrip

InitStrip ==
    /\ line \in RawLines
    /\ once = <<>>
    /\ twice = <<>>
    /\ spc = "raw"
    /\ StreamIdle
    /\ BlockIdle
    /\ PipeIdle
    /\ JobIdle
    /\ CollectIdle
    /\ LockIdle

StripOnce ==
    /\ spc = "raw"
    /\ once' = strip_stdlog(line)
    /\ spc' = "once"
    /\ UNCHANGED <<line, twice, NotStrip>>

StripTwice ==
    /\ spc = "once"
    /\ twice' = strip_stdlog(once)
    /\ spc' = "twice"
    /\ UNCHANGED <<line, once, NotStrip>>

NextStrip == StripOnce \/ StripTwice

SpecStrip == InitStrip /\ [][NextStrip]_vars

\* ------------------------------------------------------------------ C7, C8

\* The lexemes between indices i and j are all whitespace.
C7_AllSpace(L, i, j) == \A k \in i..j : L[k] = " "

\* The positions of a "|" that closes a full prefix of L, in the words of
\* the claim: tag, whitespace, date, whitespace, time, whitespace, a
\* component without "|", the "|" separator, whitespace.
C7_FullPipes(L) ==
    { d \in 1..Len(L) :
        /\ L[d] = "|"
        /\ L[1] = "[stdlog]"
        /\ \E a \in 2..Len(L) :
            /\ C7_AllSpace(L, 2, a)
            /\ a + 1 <= Len(L)
            /\ L[a+1] \in DateLexemes
            /\ \E b \in (a+2)..Len(L) :
                /\ C7_AllSpace(L, a + 2, b)
                /\ b + 1 <= Len(L)
                /\ L[b+1] \in TimeLexemes
                /\ \E c \in (b+2)..(d-2) :
                    /\ C7_AllSpace(L, b + 2, c)
                    /\ \A k \in (c+1)..(d-1) : L[k] # "|"
        /\ d + 1 <= Len(L)
        /\ L[d+1] = " " }

\* L with the whitespace at both ends removed.
C7_Trim(L) ==
    LET I == {i \in 1..Len(L) : L[i] # " "}
    IN  IF I = {} THEN <<>>
        ELSE SubSeq(L, MinOf(I), CHOOSE i \in I : \A j \in I : j <= i)

\* What the claim says strip_stdlog returns for L.
C7_Expected(L) ==
    IF C7_FullPipes(L) # {}
    THEN C7_Trim(SubSeq(L, MinOf(C7_FullPipes(L)) + 1, Len(L)))
    ELSE IF Len(L) >= 2 /\ L[1] = "[stdlog]" /\ L[2] = " "
    THEN C7_Trim(SubSeq(L, 2, Len(L)))
    ELSE C7_Trim(L)

\* C7: strip_stdlog is total and applies the decoration forms in a fixed
\* precedence: a line with the full prefix yields the text after that
\* prefix, trimmed; otherwise a line that begins with the tag and whitespace
\* yields the text after the tag, trimmed; otherwise the line trimmed.  The
\* result is always a text, possibly empty.
C7_StripPrecedence ==
    spc # "raw" =>
        /\ once = C7_Expected(line)
        /\ once \in Seq(PayloadLexemes \cup {"2026-01-14", "21:12:20,986", "INFO", "avocado.test"})

\* C7 witness: a line with the full prefix whose payload itself begins with
\* the tag has lost the full prefix and nothing else.
C7_Witness ==
    /\ spc = "once"
    /\ C7_FullPipes(line) # {}
    /\ once = <<"[stdlog]", " ", "x">>

\* C8: idempotence of the line normalizer: normalizing an already
\* normalized line returns it unchanged, for every raw line.
C8_Idempotent == spc = "twice" => twice = once

\* ------------------------------------------------------------------ _extract_stdout_stream

StdoutTag == "[stdout]"
StderrTag == "[stderr]"

\* s.startswith(t) for a signature t that is one lexeme.
StartsWith(s, t) == Len(s) > 0 /\ s[1] = t

\* _BRACKET_STDOUT_RE.search(raw): the index of the leftmost "[stdout]", 0
\* when there is none (\s*(.*)$ matches whatever follows it).
BRACKET_STDOUT_RE(raw) ==
    IF \E p \in 1..Len(raw) : raw[p] = StdoutTag
    THEN MinOf({p \in 1..Len(raw) : raw[p] = StdoutTag})
    ELSE 0

\* m.group(1): what follows the tag and the whitespace after it.
BracketGroup1(raw, p) == SubSeq(raw, SpaceRunEnd(raw, p + 1) + 1, Len(raw))

\* One iteration of the loop of _extract_stdout_stream: what the raw line
\* appends to out (nothing, or one entry).
StdoutStreamLine(raw) ==
    IF BRACKET_STDOUT_RE(raw) > 0
    THEN <<str_rstrip(BracketGroup1(raw, BRACKET_STDOUT_RE(raw)))>>
    ELSE LET stripped == strip_stdlog(raw)
         IN  IF \/ StartsWith(stripped, "{")
                \/ StartsWith(stripped, "fio")
                \/ StartsWith(stripped, "stress-ng")
             THEN <<stripped>>
             ELSE <<>>

RECURSIVE extract_stdout_stream(_)
extract_stdout_stream(text) ==
    IF text = <<>> THEN <<>>
    ELSE extract_stdout_stream(SubSeq(text, 1, Len(text) - 1))
            \o StdoutStreamLine(text[Len(text)])

\* The raw lines of the logs handed to _extract_stdout_stream.
StreamLines ==
    { FullPrefix \o <<StdoutTag, Space, "{">>,
      <<StdoutTag, Space, "x", Space>>,
      <<StdoutTag>>,
      <<"x", Space, StdoutTag, Space, StdoutTag, Space, "y">>,
      <<StderrTag, Space, "x">>,
      <<"{", Space, StderrTag, Space, "x">>,
      <<Tag, Space, Space, "{">>,
      FullPrefix \o <<"stress-ng", ":", Space, "x">>,
      <<"fio", "-3.28">>,
      <<Tag, Space, "x", Space, "{">>,
      <<"x">> }

InitStream ==
    /\ slog \in SeqsUpTo(StreamLines, MaxStreamLen)
    /\ sk = 0
    /\ sout = <<>>
    /\ StripIdle
    /\ BlockIdle
    /\ PipeIdle
    /\ JobIdle
    /\ CollectIdle
    /\ LockIdle

\* for raw in text.splitlines(): ...
StreamLine ==
    /\ sk < Len(slog)
    /\ sk' = sk + 1
    /\ sout' = sout \o StdoutStreamLine(slog[sk + 1])
    /\ UNCHANGED <<slog, NotStream>>

NextStream == StreamLine

SpecStream == InitStream /\ [][NextStream]_vars

\* ------------------------------------------------------------------ C9, C10

\* The line carries an explicit stream-tag marker.
C9_HasStreamTag(L) == \E p \in 1..Len(L) : L[p] \in {"[stdout]", "[stderr]"}

\* The text after the (first) stream-tag marker of L, without the
\* whitespace around it.
C9_AfterMarker(L) ==
    LET p == MinOf({q \in 1..Len(L) : L[q] \in {"[stdout]", "[stderr]"}})
    IN  C7_Trim(SubSeq(L, p + 1, Len(L)))

\* C9: every log line that carries a stream-tag marker, [stdout] or
\* [stderr], is included in the reconstructed stream, and what it
\* contributes is exactly the text after the marker.
C9_TaggedLineKept ==
    [][ (sk' = sk + 1 /\ C9_HasStreamTag(slog[sk']))
            => sout' = Append(sout, C9_AfterMarker(slog[sk'])) ]_vars

\* What a line contributes to the stream by the rule of the claim: a
\* tagged line the text after its marker, an untagged line its normalized
\* payload when that begins with "{", "fio" or "stress-ng", any other line
\* nothing.
C10_Entry(L) ==
    IF C9_HasStreamTag(L) THEN <<C9_AfterMarker(L)>>
    ELSE IF /\ C7_Expected(L) # <<>>
            /\ C7_Expected(L)[1] \in {"{", "fio", "stress-ng"}
         THEN <<C7_Expected(L)>>
         ELSE <<>>

RECURSIVE C10_Stream(_)
C10_Stream(text) ==
    IF text = <<>> THEN <<>>
    ELSE C10_Entry(Head(text)) \o C10_Stream(Tail(text))

\* C10: the reconstructed stream holds, in log order, exactly one entry per
\* qualifying line and none for any other line; an untagged line qualifies
\* exactly when its normalized payload begins with "{", "fio" or
\* "stress-ng"; each line's entry depends on that line alone.
C10_StreamIsLineLocal == sout = C10_Stream(SubSeq(slog, 1, sk))

\* ------------------------------------------------------------------ json.loads

\* Python values.  A JSON object is a function from its keys (the quoted
\* string lexemes) to values, as dict equality ignores the order of keys; a
\* number is a fraction n/d in lowest terms.
PyNone == [t |-> "none", v |-> <<>>]
PyBool(b) == [t |-> "bool", v |-> b]
PyNum(n, d) == [t |-> "num", v |-> <<n, d>>]
PyStr(x) == [t |-> "str", v |-> x]
PyList(xs) == [t |-> "list", v |-> xs]
PyDict(f) == [t |-> "dict", v |-> f]
EmptyDict == PyDict(<<>>)

\* json.loads raised (JSONDecodeError).
JsonFail == [t |-> "error", v |-> <<>>]

\* The quoted strings and the numerals that occur in the modelled texts.
JsonStrings ==
    { "\"a\"", "\"b\"", "\"c\"", "\"x\"", "\"jobs\"", "\"read\"", "\"write\"",
      "\"bw\"", "\"iops\"", "\"latency_percentiles\"", "\"50th_us\"",
      "\"99th_us\"", "\"fio_file_verify\"", "\"json\"", "\"/tmp/a.json\"",
      "\"/tmp/b.json\"", "\"12\"", "\"\"" }

\* float(numeral) / int(numeral) as a fraction <<n, d>>.
NumeralValue(t) ==
    CASE t = "0" -> <<0, 1>>
      [] t = "1" -> <<1, 1>>
      [] t = "2" -> <<2, 1>>
      [] t = "3" -> <<3, 1>>
      [] t = "12" -> <<12, 1>>
      [] t = "55" -> <<55, 1>>
      [] t = "100" -> <<100, 1>>
      [] t = "200" -> <<200, 1>>
      [] t = "500" -> <<500, 1>>
      [] t = "700" -> <<700, 1>>
      [] t = "512" -> <<512, 1>>
      [] t = "1024" -> <<1024, 1>>
      [] t = "2048" -> <<2048, 1>>
      [] t = "2165.8" -> <<10829, 5>>
      [] t = "12.5" -> <<25, 2>>

Numerals ==
    { "0", "1", "2", "3", "12", "55", "100", "200", "500", "700", "512",
      "1024", "2048", "2165.8", "12.5" }

\* The lexemes of the lines without the whitespace: what the JSON scanner
\* sees of "\n".join(lines).strip().
RECURSIVE JoinTokens(_)
JoinTokens(lines) ==
    IF lines = <<>> THEN <<>>
    ELSE JoinTokens(SubSeq(lines, 1, Len(lines) - 1))
            \o SelectSeq(lines[Len(lines)], LAMBDA t : ~IsSpace(t))

ParseError == [ok |-> FALSE, v |-> JsonFail, n |-> 0]

\* dict[key] = value: a repeated key keeps the last value.
DictPut(f, key, value) ==
    [k \in (DOMAIN f) \cup {key} |-> IF k = key THEN value ELSE f[k]]

\* The recursive-descent parser of json.loads over the tokens tk from index
\* i: [ok, v, n] with the value v and the index n after it.
RECURSIVE ParseValue(_, _), ParseMembers(_, _, _), ParseElements(_, _, _)
ParseValue(tk, i) ==
    IF i > Len(tk) THEN ParseError
    ELSE IF tk[i] = "{" THEN
            IF i + 1 <= Len(tk) /\ tk[i+1] = "}"
            THEN [ok |-> TRUE, v |-> EmptyDict, n |-> i + 2]
            ELSE ParseMembers(tk, i + 1, <<>>)
    ELSE IF tk[i] = "[" THEN
            IF i + 1 <= Len(tk) /\ tk[i+1] = "]"
            THEN [ok |-> TRUE, v |-> PyList(<<>>), n |-> i + 2]
            ELSE ParseElements(tk, i + 1, <<>>)
    ELSE IF tk[i] \in JsonStrings THEN [ok |-> TRUE, v |-> PyStr(tk[i]), n |-> i + 1]
    ELSE IF tk[i] \in Numerals
         THEN [ok |-> TRUE, v |-> [t |-> "num", v |-> NumeralValue(tk[i])], n |-> i + 1]
    ELSE IF tk[i] = "null" THEN [ok |-> TRUE, v |-> PyNone, n |-> i + 1]
    ELSE IF tk[i] = "true" THEN [ok |-> TRUE, v |-> PyBool(TRUE), n |-> i + 1]
    ELSE IF tk[i] = "false" THEN [ok |-> TRUE, v |-> PyBool(FALSE), n |-> i + 1]
    ELSE ParseError

ParseMembers(tk, i, acc) ==
    IF i + 1 > Len(tk) \/ tk[i] \notin JsonStrings \/ tk[i+1] # ":" THEN ParseError
    ELSE LET After(r) ==
                IF ~r.ok \/ r.n > Len(tk) THEN ParseError
                ELSE IF tk[r.n] = ","
                     THEN ParseMembers(tk, r.n + 1, DictPut(acc, tk[i], r.v))
                ELSE IF tk[r.n] = "}"
                     THEN [ok |-> TRUE, v |-> PyDict(DictPut(acc, tk[i], r.v)),
                           n |-> r.n + 1]
                ELSE ParseError
         IN  After(ParseValue(tk, i + 2))

ParseElements(tk, i, acc) ==
    LET After(r) ==
            IF ~r.ok \/ r.n > Len(tk) THEN ParseError
            ELSE IF tk[r.n] = "," THEN ParseElements(tk, r.n + 1, Append(acc, r.v))
            ELSE IF tk[r.n] = "]"
                 THEN [ok |-> TRUE, v |-> PyList(Append(acc, r.v)), n |-> r.n + 1]
            ELSE ParseError
    IN  After(ParseValue(tk, i))

\* The value that the parser found when it read all the tokens.
WholeValue(tk, r) == IF r.ok /\ r.n = Len(tk) + 1 THEN r.v ELSE JsonFail

\* json.loads of the tokens tk.
ParseTokens(tk) == WholeValue(tk, ParseValue(tk, 1))

\* json.loads(payload) of the text made of the given lines: the value, or
\* JsonFail when it raises (no value, or text after the value).
json_loads(lines) == ParseTokens(JoinTokens(lines))

\* ------------------------------------------------------------------ _extract_embedded_json_block

\* for j in range(i + 1, min(i + 300, len(lines)))
Window == 300

MarkerBench == "Benchmark results:"
MarkerFs == "Filesystem test results:"
MarkerApp == "Application test results:"

\* What is left of a lexeme that a character slice cuts in two.
Fragment == "<fragment>"

\* marker in raw
MarkerIn(marker, raw) == \E p \in 1..Len(raw) : raw[p] = marker

\* s[n:] for a count n of characters.
RECURSIVE CharDrop(_, _)
CharDrop(s, n) ==
    IF n <= 0 \/ s = <<>> THEN s
    ELSE IF Len(s[1]) <= n THEN CharDrop(Tail(s), n - Len(s[1]))
    ELSE <<Fragment>> \o Tail(s)

\* stripped[pos + len(marker):].strip() with pos = stripped.find(marker),
\* which is -1 when the marker stood in the prefix that was stripped.
MarkerTail(raw, marker) ==
    LET Slice(stripped) ==
            IF MarkerIn(marker, stripped)
            THEN str_strip(SubSeq(stripped,
                                  MinOf({p \in 1..Len(stripped) : stripped[p] = marker}) + 1,
                                  Len(stripped)))
            ELSE str_strip(CharDrop(stripped, Len(marker) - 1))
    IN  Slice(strip_stdlog(raw))

\* "{" in "\n".join(payload_lines)
HasOpenBrace(payload_lines) ==
    \E k \in 1..Len(payload_lines) :
        \E p \in 1..Len(payload_lines[k]) : payload_lines[k][p] = "{"

EmbStart == [pc |-> "scan", i |-> 0, j |-> 0, payload_lines |-> <<>>, result |-> PyNone]

\* A plausible slip: the outer loop as a while loop whose index is not
\* advanced on a line without the marker.
EmbScanStep_NoAdvance(st, lines, marker) ==
    IF st.i >= Len(lines) THEN [st EXCEPT !.pc = "done", !.result = PyNone]
    ELSE IF MarkerIn(marker, lines[st.i + 1])
    THEN LET First(tail) ==
                [st EXCEPT !.pc = "inner", !.j = st.i + 1,
                           !.payload_lines = IF tail # <<>> THEN <<tail>> ELSE <<>>]
         IN  First(MarkerTail(lines[st.i + 1], marker))
    ELSE st

\* One step of the outer loop, for i, raw in enumerate(lines): the line has
\* no marker and the loop goes on, or it has one and payload_lines starts
\* with the tail of the line; after the last line the function returns None.
EmbScanStep(st, lines, marker) ==
    IF st.i >= Len(lines) THEN [st EXCEPT !.pc = "done", !.result = PyNone]
    ELSE IF MarkerIn(marker, lines[st.i + 1])
    THEN LET First(tail) ==
                [st EXCEPT !.pc = "inner", !.j = st.i + 1,
                           !.payload_lines = IF tail # <<>> THEN <<tail>> ELSE <<>>]
         IN  First(MarkerTail(lines[st.i + 1], marker))
    ELSE [st EXCEPT !.i = st.i + 1]

MinInt(a, b) == IF a <= b THEN a ELSE b

\* A plausible slip: the lookahead not bounded by the window.
EmbRangeEnd_Unbounded(i, n) == n

\* min(i + 300, len(lines)): the end (exclusive) of the range of j.
EmbRangeEnd(i, n) == MinInt(i + Window, n)

\* A plausible slip: a line "}" at which the buffer does not parse yet (the
\* end of a nested object) ends the function with None.
EmbInnerStep_StopAtBrace(st, lines) ==
    LET Try(pl, obj) ==
            [st EXCEPT !.pc = "done", !.payload_lines = pl,
                       !.result = IF obj # JsonFail THEN obj ELSE PyNone]
        Take(s, pl) ==
            IF s = <<>>
            THEN IF st.payload_lines # <<>>
                 THEN [st EXCEPT !.pc = "final"]
                 ELSE [st EXCEPT !.j = st.j + 1]
            ELSE IF s = <<"}">> /\ HasOpenBrace(pl)
                 THEN Try(pl, json_loads(pl))
                 ELSE [st EXCEPT !.j = st.j + 1, !.payload_lines = pl]
        Line(s) == Take(s, Append(st.payload_lines, s))
    IN  IF st.j >= EmbRangeEnd(st.i, Len(lines)) THEN [st EXCEPT !.pc = "final"]
        ELSE Line(strip_stdlog(lines[st.j + 1]))

\* One step of the inner loop over j (or its end, which leads to the final
\* attempt).
EmbInnerStep(st, lines) ==
    LET Try(pl, obj) ==
            IF obj # JsonFail
            THEN [st EXCEPT !.pc = "done", !.payload_lines = pl, !.result = obj]
            ELSE [st EXCEPT !.j = st.j + 1, !.payload_lines = pl]
        Take(s, pl) ==
            IF s = <<>>
            THEN IF st.payload_lines # <<>>
                 THEN [st EXCEPT !.pc = "final"]
                 ELSE [st EXCEPT !.j = st.j + 1]
            ELSE IF s = <<"}">> /\ HasOpenBrace(pl)
                 THEN Try(pl, json_loads(pl))
                 ELSE [st EXCEPT !.j = st.j + 1, !.payload_lines = pl]
        Line(s) == Take(s, Append(st.payload_lines, s))
    IN  IF st.j >= EmbRangeEnd(st.i, Len(lines)) THEN [st EXCEPT !.pc = "final"]
        ELSE Line(strip_stdlog(lines[st.j + 1]))

\* A plausible slip: after a failed final attempt the outer loop goes on to
\* the next line that holds the marker.
EmbFinalStep_NextMarker(st) ==
    LET Try(obj) ==
            IF obj # JsonFail
            THEN [st EXCEPT !.pc = "done", !.result = obj]
            ELSE [st EXCEPT !.pc = "scan", !.i = st.i + 1, !.payload_lines = <<>>]
    IN  Try(json_loads(st.payload_lines))

\* The final attempt: json.loads of everything accumulated, None when it
\* raises.
EmbFinalStep(st) ==
    LET Try(obj) ==
            IF obj # JsonFail
            THEN [st EXCEPT !.pc = "done", !.result = obj]
            ELSE [st EXCEPT !.pc = "done", !.result = PyNone]
    IN  Try(json_loads(st.payload_lines))

EmbStep(st, lines, marker) ==
    CASE st.pc = "scan" -> EmbScanStep(st, lines, marker)
      [] st.pc = "inner" -> EmbInnerStep(st, lines)
      [] st.pc = "final" -> EmbFinalStep(st)

RECURSIVE EmbRun(_, _, _)
EmbRun(st, lines, marker) ==
    IF st.pc = "done" THEN st.result ELSE EmbRun(EmbStep(st, lines, marker), lines, marker)

\* _extract_embedded_json_block(text, marker): the value returned.
extract_embedded_json_block(text, marker) == EmbRun(EmbStart, text, marker)

\* ------------------------------------------------------------------ logs with embedded blocks

\* A JSON document before it is printed: ["obj", members <<key, tree>>],
\* ["arr", elements], ["num", numeral], ["str", quoted string].
TObj(mem) == [t |-> "obj", x |-> mem]
TArr(e) == [t |-> "arr", x |-> e]
TNum(n) == [t |-> "num", x |-> n]
TStr(q) == [t |-> "str", x |-> q]
\* true, false, null
TLit(w) == [t |-> "lit", x |-> w]

\* The Python value of a document.
RECURSIVE TreeValue(_), TreeDict(_, _), TreeList(_, _)
TreeValue(tree) ==
    CASE tree.t = "obj" -> PyDict(TreeDict(tree.x, Len(tree.x)))
      [] tree.t = "arr" -> PyList(TreeList(tree.x, Len(tree.x)))
      [] tree.t = "num" -> PyNum(NumeralValue(tree.x)[1], NumeralValue(tree.x)[2])
      [] tree.t = "str" -> PyStr(tree.x)
      [] tree.t = "lit" -> IF tree.x = "null" THEN PyNone ELSE PyBool(tree.x = "true")
TreeDict(mem, k) ==
    IF k = 0 THEN <<>>
    ELSE DictPut(TreeDict(mem, k - 1), mem[k][1], TreeValue(mem[k][2]))
TreeList(e, k) ==
    IF k = 0 THEN <<>> ELSE Append(TreeList(e, k - 1), TreeValue(e[k]))

Indent(depth) == [k \in 1..(2 * depth) |-> Space]

\* The last line of ls with t appended.
WithTrail(ls, t) == [ls EXCEPT ![Len(ls)] = ls[Len(ls)] \o t]

\* json.dumps(tree, indent=2) as lines; the first line carries no
\* indentation (it continues the line the document is printed on).
RECURSIVE PrettyLines(_, _), PrettyItems(_, _, _, _)
PrettyLines(tree, depth) ==
    IF tree.t \in {"num", "str", "lit"} THEN <<<<tree.x>>>>
    ELSE LET open == IF tree.t = "obj" THEN "{" ELSE "["
             close == IF tree.t = "obj" THEN "}" ELSE "]"
         IN  IF tree.x = <<>> THEN <<<<open, close>>>>
             ELSE <<<<open>>>> \o PrettyItems(tree, depth + 1, 1, <<>>)
                      \o <<Indent(depth) \o <<close>>>>
\* The lines of the members (elements) k.. of tree, each at the given depth.
PrettyItems(tree, depth, k, acc) ==
    IF k > Len(tree.x) THEN acc
    ELSE LET item == tree.x[k]
             vl == IF tree.t = "obj" THEN PrettyLines(item[2], depth)
                   ELSE PrettyLines(item, depth)
             lead == IF tree.t = "obj" THEN <<item[1], ":", Space>> ELSE <<>>
             ls == <<Indent(depth) \o lead \o vl[1]>> \o Tail(vl)
             out == IF k < Len(tree.x) THEN WithTrail(ls, <<",">>) ELSE ls
         IN  PrettyItems(tree, depth, k + 1, acc \o out)

ContPrefix == <<Tag, Space, Space>>

\* The decoration of the k-th continuation line of a logged message.
Decoration(mode, k) ==
    CASE mode = "cont" -> ContPrefix
      [] mode = "full" -> FullPrefix
      [] mode = "mixed" -> IF k % 2 = 1 THEN ContPrefix ELSE FullPrefix

DecoModes == {"cont", "full", "mixed"}

\* self.log.info(f"<marker> {json.dumps(results, indent=2)}") as it stands
\* in debug.log: the marker line (with head before the marker) ends with
\* the first line of the document, each further line is decorated.
LoggedBlock(head, marker, tree, mode) ==
    LET pl == PrettyLines(tree, 0)
    IN  <<head \o <<marker, Space>> \o pl[1]>>
            \o [k \in 1..(Len(pl) - 1) |-> Decoration(mode, k) \o pl[k + 1]]

SmallTrees ==
    { TObj(<< <<"\"a\"", TNum("1")>> >>),
      TObj(<< <<"\"a\"", TObj(<< <<"\"b\"", TNum("1")>> >>)>> >>),
      TObj(<< <<"\"a\"", TObj(<< <<"\"b\"", TNum("1")>> >>)>>,
              <<"\"c\"", TArr(<<TNum("1"), TNum("2")>>)>> >>),
      TObj(<< <<"\"a\"", TObj(<<>>)>>, <<"\"b\"", TStr("\"x\"")>> >>),
      TObj(<< <<"\"a\"", TArr(<<TObj(<< <<"\"b\"", TNum("1")>> >>)>>)>> >>),
      TObj(<< <<"\"latency_percentiles\"",
                TObj(<< <<"\"50th_us\"", TNum("12")>>, <<"\"99th_us\"", TNum("55")>> >>)>> >>) }

OtherLine == FullPrefix \o <<"x">>

PreLines == {[k \in 1..n |-> OtherLine] : n \in 0..MaxPreLines}

PostLines == {<<>>, <<OtherLine>>, <<<<>>>>, <<ContPrefix, OtherLine>>}

\* A block logged the way the test suites log it, among other lines.
RoundTripLogs ==
    { pre \o LoggedBlock(head, MarkerBench, tree, mode) \o post :
        pre \in PreLines, head \in {<<>>, FullPrefix},
        tree \in SmallTrees, mode \in DecoModes, post \in PostLines }

Blanks(n) == [k \in 1..n |-> <<>>]

\* A marker line, pad blank lines, then a block that starts on a line of
\* its own: the block lies inside, across or beyond the lookahead window.
WindowPads == (Window - 3 - PadSlack)..(Window - 2 + PadSlack)

WindowBodies ==
    { <<<<"{", "}">>>>,
      <<ContPrefix \o <<"{">>, ContPrefix \o <<"\"a\"", ":", Space, "1">>, ContPrefix \o <<"}">>>> }

WindowLogs ==
    { <<FullPrefix \o <<MarkerBench>>>> \o Blanks(pad) \o body \o post :
        pad \in WindowPads, body \in WindowBodies, post \in {<<>>, <<<<"}">>>>} }

\* What may follow the first marker line before a second block is logged.
FirstBlocks ==
    { <<<<MarkerBench>>, OtherLine, <<>>>>,
      <<<<MarkerBench>>, OtherLine>>,
      <<<<MarkerBench, Space, "{">>, ContPrefix \o <<"\"a\"", ":", Space, "1">>, <<>>>>,
      <<<<MarkerBench, Space, "{", "}">>, OtherLine, <<>>>>,
      <<<<MarkerBench, Space, "{", "}">>, <<>>>>,
      <<<<MarkerBench, Space, "[", "1", "]">>, <<>>>>,
      <<<<Tag, Space, "2026-01-14", Space, "21:12:20,986", Space, MarkerBench,
          Space, Pipe, Space, "{">>, ContPrefix \o <<"}">>, <<>>>> }

TwoMarkerLogs ==
    { first \o LoggedBlock(FullPrefix, MarkerBench,
                           TObj(<< <<"\"b\"", TNum("2")>> >>), "cont") :
        first \in FirstBlocks }

BlockLogs ==
    RoundTripLogs \cup WindowLogs \cup TwoMarkerLogs \cup {<<>>, <<OtherLine, <<>>>>}

\* ------------------------------------------------------------------ SpecBlock

InitBlock ==
    /\ blog \in BlockLogs
    /\ bmarker \in {MarkerBench, MarkerFs}
    /\ eb = EmbStart
    /\ bcut = FALSE
    /\ bfirst = PyNone
    /\ StripIdle
    /\ StreamIdle
    /\ PipeIdle
    /\ JobIdle
    /\ CollectIdle
    /\ LockIdle

\* for i, raw in enumerate(lines): if marker in raw: ...
BlockScan ==
    /\ eb.pc = "scan"
    /\ eb' = EmbScanStep(eb, blog, bmarker)
    /\ UNCHANGED <<blog, bmarker, bcut, bfirst, NotBlock>>

\* A plausible slip: every blank normalized line is skipped, also after
\* payload has been captured.
BlockInner_SkipBlank ==
    /\ eb.pc = "inner"
    /\ eb' = IF /\ eb.j < EmbRangeEnd(eb.i, Len(blog))
                /\ strip_stdlog(blog[eb.j + 1]) = <<>>
             THEN [eb EXCEPT !.j = eb.j + 1]
             ELSE EmbInnerStep(eb, blog)
    /\ UNCHANGED <<blog, bmarker, bcut, bfirst, NotBlock>>

\* for j in range(i + 1, min(i + 300, len(lines))): ...
BlockInner ==
    /\ eb.pc = "inner"
    /\ eb' = EmbInnerStep(eb, blog)
    /\ UNCHANGED <<blog, bmarker, bcut, bfirst, NotBlock>>

\* final attempt
BlockFinal ==
    /\ eb.pc = "final"
    /\ eb' = EmbFinalStep(eb)
    /\ UNCHANGED <<blog, bmarker, bcut, bfirst, NotBlock>>

\* The same call on the log without the lines that follow the 300 lines
\* after the marker line.
BlockCutLog ==
    /\ eb.pc = "done"
    /\ ~bcut
    /\ \E p \in 1..Len(blog) : MarkerIn(bmarker, blog[p])
    /\ LET first == MinOf({p \in 1..Len(blog) : MarkerIn(bmarker, blog[p])})
       IN  /\ Len(blog) > first + Window
           /\ blog' = SubSeq(blog, 1, first + Window)
    /\ bcut' = TRUE
    /\ bfirst' = eb.result
    /\ eb' = EmbStart
    /\ UNCHANGED <<bmarker, NotBlock>>

NextBlock == BlockScan \/ BlockInner \/ BlockFinal \/ BlockCutLog

SpecBlock == InitBlock /\ [][NextBlock]_vars

\* ------------------------------------------------------------------ C4, C5, C6

\* C4: round trip of the embedded block extractor: for a well-formed JSON
\* object pretty-printed over several lines, whose "{" follows the marker
\* on the marker line, whose further lines each carry a full or a
\* continuation prefix and which ends inside the lookahead window, the
\* function returns an object equal to the one that was printed.
C4_RoundTrip ==
    (eb.pc = "done" /\ ~bcut /\ bmarker = "Benchmark results:") =>
        \A pre \in PreLines, head \in {<<>>, FullPrefix}, tree \in SmallTrees,
           mode \in DecoModes, post \in PostLines :
            ( /\ blog = pre \o LoggedBlock(head, "Benchmark results:", tree, mode) \o post
              /\ Len(PrettyLines(tree, 0)) > 1
              /\ Len(PrettyLines(tree, 0)) - 1 < Window )
                => eb.result = TreeValue(tree)

\* C4 witness: a block with a nested object, whose closing brace stands
\* alone on a line, has been returned; other log lines follow the block.
C4_Witness ==
    /\ eb.pc = "done"
    /\ blog = <<OtherLine>>
                \o LoggedBlock(FullPrefix, "Benchmark results:",
                               TObj(<< <<"\"a\"", TObj(<< <<"\"b\"", TNum("1")>> >>)>> >>),
                               "mixed")
                \o <<OtherLine>>
    /\ bmarker = "Benchmark results:"
    /\ eb.result = PyDict(("\"a\"" :> PyDict(("\"b\"" :> PyNum(1, 1)))))

\* The (1-based) numbers of the lines of the log that contain the marker.
C5_MarkerLines(log, marker) ==
    {p \in 1..Len(log) : \E q \in 1..Len(log[p]) : log[p][q] = marker}

\* The log from its first marker line on, the marker replaced by a plain
\* word wherever it occurs on a later line.
C5_LaterMarkersBlanked(log, marker) ==
    LET first == MinOf(C5_MarkerLines(log, marker))
    IN  [k \in 1..(Len(log) - first + 1) |->
            IF k = 1 THEN log[first]
            ELSE [q \in 1..Len(log[first + k - 1]) |->
                    IF log[first + k - 1][q] = marker THEN "x"
                    ELSE log[first + k - 1][q]]]

\* C5: only the first line that contains the marker is processed: the line
\* whose tail starts the payload is always the first marker line, and the
\* value returned is the one returned for the log that starts at that line
\* and holds the marker nowhere else, also when the first occurrence
\* yields None and a later one is followed by a valid block.
C5_FirstOccurrenceOnly ==
    /\ (eb.pc \in {"inner", "final"} \/ (eb.pc = "done" /\ C5_MarkerLines(blog, bmarker) # {}))
            => eb.i + 1 = MinOf(C5_MarkerLines(blog, bmarker))
    /\ (eb.pc = "done" /\ C5_MarkerLines(blog, bmarker) = {}) => eb.result = PyNone
    /\ (eb.pc = "done" /\ C5_MarkerLines(blog, bmarker) # {} /\ Len(blog) <= MaxEvalLen)
            => eb.result = extract_embedded_json_block(
                                C5_LaterMarkersBlanked(blog, bmarker), bmarker)

\* C5 witness: the function has returned None although a later line holds
\* the marker and is followed by a valid block.
C5_Witness ==
    /\ eb.pc = "done"
    /\ eb.result = PyNone
    /\ Len(blog) <= MaxEvalLen
    /\ \E p \in C5_MarkerLines(blog, bmarker) :
        /\ p > MinOf(C5_MarkerLines(blog, bmarker))
        /\ extract_embedded_json_block(SubSeq(blog, p, Len(blog)), bmarker).t = "dict"

\* The number of lexemes t on the marker line and the (at most) n lines
\* after it.
C6_Count(log, marker, n, t) ==
    LET first == MinOf(C5_MarkerLines(log, marker))
        last == IF first + n <= Len(log) THEN first + n ELSE Len(log)
    IN  Cardinality(UNION { {<<k, q>> : q \in {r \in 1..Len(log[k]) : log[k][r] = t}} :
                            k \in first..last })

\* More "{" than "}" up to the end of the window of 300 lines.
C6_Unclosed(log, marker) ==
    /\ C5_MarkerLines(log, marker) # {}
    /\ C6_Count(log, marker, 300, "{") > C6_Count(log, marker, 300, "}")

\* C6: bounded scan: at most 300 lines after the marker line are examined,
\* the lines beyond that window do not influence the value returned (the
\* log cut off after the window yields the same value), and a block whose
\* "{" has no matching close within the window yields None.
C6_BoundedScan ==
    /\ eb.pc \in {"inner", "final"} => eb.j - (eb.i + 1) <= 300
    /\ (bcut /\ eb.pc = "done") => eb.result = bfirst
    /\ (eb.pc = "done" /\ C6_Unclosed(blog, bmarker)) => eb.result = PyNone

\* C6 witness: None has been returned for a log whose block opens inside
\* the window and closes on a line beyond it.
C6_Witness ==
    /\ eb.pc = "done"
    /\ ~bcut
    /\ C6_Unclosed(blog, bmarker)
    /\ Len(blog) > MinOf(C5_MarkerLines(blog, bmarker)) + 300
    /\ blog[Len(blog)] = ContPrefix \o <<"}">>
    /\ eb.payload_lines # <<>>
    /\ eb.result = PyNone

\* ------------------------------------------------------------------ numbers

RECURSIVE Gcd(_, _)
Gcd(a, b) == IF b = 0 THEN a ELSE Gcd(b, a % b)

\* A float is modelled by the fraction <<n, d>> it stands for, in lowest
\* terms (n >= 0, d > 0).
Frac(n, d) == <<n \div Gcd(n, d), d \div Gcd(n, d)>>
FracAdd(x, y) == Frac(x[1] * y[2] + y[1] * x[2], x[2] * y[2])
FracDiv(x, k) == Frac(x[1], x[2] * k)

\* sum(xs)
RECURSIVE FracSum(_)
FracSum(xs) ==
    IF xs = <<>> THEN <<0, 1>>
    ELSE FracAdd(FracSum(SubSeq(xs, 1, Len(xs) - 1)), xs[Len(xs)])

\* The numerals that [0-9]+ (or \d+) matches as a whole.
IntNumerals ==
    {"0", "1", "2", "3", "12", "55", "100", "200", "500", "700", "512", "1024", "2048"}

\* ------------------------------------------------------------------ the metric regular expressions

\* The lexeme that stands for the check mark (U+2713) of the summary lines.
Check == "<check>"

\* The lexemes that [0-9a-fA-F:.]+ matches besides the numerals.
AddrLexemes == {"0000:01:00.0"}

\* str.lower() of a lexeme (re.IGNORECASE compares lower-cased text).
Lower(t) ==
    CASE t \in {"Pass", "PASS"} -> "pass"
      [] t = "OLTP" -> "oltp"
      [] t = "IOPS" -> "iops"
      [] t = "Mixed" -> "mixed"
      [] t = "R" -> "r"
      [] t = "W" -> "w"
      [] t = "SQLite" -> "sqlite"
      [] t = "PCIE" -> "pcie"
      [] t = "NSID" -> "nsid"
      [] t = "MiB/s" -> "mib/s"
      [] t = "MB/s" -> "mb/s"
      [] t \in {"Read", "READ"} -> "read"
      [] t \in {"Write", "WRITE"} -> "write"
      [] t = "DIMM" -> "dimm"
      [] t = "NVMe" -> "nvme"
      [] OTHER -> t

\* The items of a regular expression, at the level of lexemes: a literal
\* (one of the lower-cased lexemes w), \s*, \s+, \d+, a captured [0-9]+, a
\* captured [0-9]*\.?[0-9]+ and [0-9a-fA-F:.]+.
Lit(w) == [k |-> "lit", w |-> {w}]
Alt(ws) == [k |-> "lit", w |-> ws]
Ws0 == [k |-> "ws*", w |-> {}]
Ws1 == [k |-> "ws+", w |-> {}]
Digits == [k |-> "int", w |-> {}]
CapInt == [k |-> "cint", w |-> {}]
CapNum == [k |-> "cnum", w |-> {}]
Addr == [k |-> "addr", w |-> {}]

NoMatch == [ok |-> FALSE, groups |-> <<>>]

\* The match of the items pat[k..] against s from index p on, with the
\* groups captured so far.  No item that follows \s* or \s+ matches
\* whitespace, so the greedy run is the only one to try.
RECURSIVE MatchAt(_, _, _, _, _)
MatchAt(pat, k, s, p, groups) ==
    IF k > Len(pat) THEN [ok |-> TRUE, groups |-> groups]
    ELSE IF pat[k].k = "ws*" THEN MatchAt(pat, k + 1, s, SpaceRunEnd(s, p) + 1, groups)
    ELSE IF p > Len(s) THEN NoMatch
    ELSE CASE pat[k].k = "ws+" ->
                IF IsSpace(s[p])
                THEN MatchAt(pat, k + 1, s, SpaceRunEnd(s, p) + 1, groups)
                ELSE NoMatch
           [] pat[k].k = "lit" ->
                IF Lower(s[p]) \in pat[k].w
                THEN MatchAt(pat, k + 1, s, p + 1, groups)
                ELSE NoMatch
           [] pat[k].k = "int" ->
                IF s[p] \in IntNumerals
                THEN MatchAt(pat, k + 1, s, p + 1, groups)
                ELSE NoMatch
           [] pat[k].k = "cint" ->
                IF s[p] \in IntNumerals
                THEN MatchAt(pat, k + 1, s, p + 1, Append(groups, s[p]))
                ELSE NoMatch
           [] pat[k].k = "cnum" ->
                IF s[p] \in Numerals
                THEN MatchAt(pat, k + 1, s, p + 1, Append(groups, s[p]))
                ELSE NoMatch
           [] pat[k].k = "addr" ->
                IF s[p] \in AddrLexemes \cup Numerals
                THEN MatchAt(pat, k + 1, s, p + 1, groups)
                ELSE NoMatch

\* pattern.search(s): the leftmost match.
RE_search(pat, s) ==
    LET Leftmost(starts) ==
            IF starts = {} THEN NoMatch ELSE MatchAt(pat, 1, s, MinOf(starts), <<>>)
    IN  Leftmost({p \in 1..Len(s) : MatchAt(pat, 1, s, p, <<>>).ok})

RE_PASS_BW ==
    <<Lit(Check), Ws0, Lit("pass"), Ws0, Digits, Ws0, Lit(":"), Ws0, CapNum, Ws0,
      Alt({"mib/s", "mb/s"})>>

RE_OLTP ==
    <<Lit(Check), Ws0, Lit("oltp"), Lit(":"), Ws0, CapInt, Ws0, Lit("read"), Ws0,
      Lit("iops"), Lit(","), Ws0, CapInt, Ws0, Lit("write"), Ws0, Lit("iops")>>

RE_MIXED ==
    <<Lit(Check), Ws0, Lit("mixed"), Ws0, Lit("50/50"), Lit(":"), Ws0, CapInt, Ws0,
      Lit("r"), Ws0, Lit("+"), Ws0, CapInt, Ws0, Lit("w"), Ws0, Lit("="), Ws0,
      CapInt, Ws0, Lit("total"), Ws0, Lit("iops")>>

RE_SQLITE ==
    <<Lit(Check), Ws0, Lit("sqlite"), Ws0, Lit("insert"), Ws0, Lit("rate"), Lit(":"),
      Ws0, CapNum, Ws0, Lit("rows/s"), Lit(","), Ws0, Lit("select"), Lit(":"), Ws0,
      CapNum, Ws0, Lit("ops/s")>>

RE_SPDK_ROW ==
    <<Lit("pcie"), Ws0, Lit("("), Addr, Lit(")"), Ws0, Lit("nsid"), Ws0, Digits, Ws0,
      Lit("from"), Ws0, Lit("core"), Ws0, Digits, Ws0, Lit(":"), Ws0, CapNum, Ws1,
      CapNum, Ws1, CapNum>>

\* The matches of pat in the normalized lines, in line order.
Matches(pat, lines) ==
    SelectSeq([k \in 1..Len(lines) |-> RE_search(pat, strip_stdlog(lines[k]))],
              LAMBDA r : r.ok)

\* re.findall(r"([0-9]*\.?[0-9]+)", t) for one lexeme t, as fractions.
NumbersIn(t) ==
    CASE t \in Numerals -> <<NumeralValue(t)>>
      [] t = "2026-01-14" -> <<<<2026, 1>>, <<1, 1>>, <<14, 1>>>>
      [] t = "21:12:20,986" -> <<<<21, 1>>, <<12, 1>>, <<20, 1>>, <<986, 1>>>>
      [] t = "0000:01:00.0" -> <<<<0, 1>>, <<1, 1>>, <<0, 1>>>>
      [] t = "50/50" -> <<<<50, 1>>, <<50, 1>>>>
      [] t = "202s" -> <<<<202, 1>>>>
      [] t = "-3.28" -> <<<<82, 25>>>>
      [] t = "[1234]" -> <<<<1234, 1>>>>
      [] t = "\"50th_us\"" -> <<<<50, 1>>>>
      [] t = "\"99th_us\"" -> <<<<99, 1>>>>
      [] OTHER -> <<>>

\* re.findall(r"([0-9]*\.?[0-9]+)", s)
RECURSIVE FindNumbers(_)
FindNumbers(s) ==
    IF s = <<>> THEN <<>>
    ELSE FindNumbers(SubSeq(s, 1, Len(s) - 1)) \o NumbersIn(s[Len(s)])

\* ------------------------------------------------------------------ _fio_metrics_from_json

MaxOf(S) == CHOOSE p \in S : \A q \in S : q <= p

\* d.get(key, default) of a dict value.
DictGet(d, key, default) == IF key \in DOMAIN d.v THEN d.v[key] ELSE default

\* not v: the values Python takes for false.
Falsy(v) ==
    \/ v.t = "none"
    \/ v.t = "bool" /\ v.v = FALSE
    \/ v.t = "num" /\ v.v[1] = 0
    \/ v.t = "str" /\ v.v = "\"\""
    \/ v.t \in {"list", "dict"} /\ v.v = <<>>

\* float(v) raised (ValueError, TypeError).
FloatRaise == <<-1, 0>>

\* float(v): a number is itself, True is 1.0, a string is parsed, any
\* other value raises.
FloatOf(v) ==
    CASE v.t = "num" -> v.v
      [] v.t = "bool" -> IF v.v THEN <<1, 1>> ELSE <<0, 1>>
      [] v.t = "str" -> IF v.v = "\"12\"" THEN <<12, 1>> ELSE FloatRaise
      [] OTHER -> FloatRaise

\* float(v or 0.0)
FloatOr0(v) == IF Falsy(v) THEN <<0, 1>> ELSE FloatOf(v)

\* What the entries of jobs add to one of the four sums: for each entry that
\* is a dict and whose j.get(dir, {}) is a dict, float(r.get(key, 0.0) or 0.0).
JobTerms(jobs, dir, key) ==
    LET Terms(used) ==
            [k \in 1..Len(used) |->
                FloatOr0(DictGet(DictGet(used[k], dir, EmptyDict), key, PyNum(0, 1)))]
    IN  Terms(SelectSeq(jobs,
                  LAMBDA j : j.t = "dict" /\ DictGet(j, dir, EmptyDict).t = "dict"))

HasRaise(xs) == \E k \in 1..Len(xs) : xs[k] = FloatRaise

\* res with res[key] = x added when x > 0.
PutPositive(res, key, x) == IF x[1] > 0 THEN res @@ (key :> x) ELSE res

\* _fio_metrics_from_json(obj): [raised, res]; raised when obj.get or a
\* float() raises.
fio_metrics_from_json(obj) ==
    IF obj.t # "dict" THEN [raised |-> TRUE, res |-> <<>>]
    ELSE LET Sums(rbw, riops, wbw, wiops) ==
                IF HasRaise(rbw) \/ HasRaise(riops) \/ HasRaise(wbw) \/ HasRaise(wiops)
                THEN [raised |-> TRUE, res |-> <<>>]
                ELSE [raised |-> FALSE,
                      res |-> PutPositive(
                                PutPositive(
                                  PutPositive(
                                    PutPositive(<<>>, "fio_rbw_mib_s",
                                                FracDiv(FracSum(rbw), 1024)),
                                    "fio_wbw_mib_s", FracDiv(FracSum(wbw), 1024)),
                                  "fio_riops", FracSum(riops)),
                                "fio_wiops", FracSum(wiops))]
             Jobs(jobs) ==
                IF jobs.t # "list" THEN [raised |-> FALSE, res |-> <<>>]
                ELSE Sums(JobTerms(jobs.v, "\"read\"", "\"bw\""),
                          JobTerms(jobs.v, "\"read\"", "\"iops\""),
                          JobTerms(jobs.v, "\"write\"", "\"bw\""),
                          JobTerms(jobs.v, "\"write\"", "\"iops\""))
         IN  Jobs(DictGet(obj, "\"jobs\"", PyNone))

\* ------------------------------------------------------------------ _collect_json_objects_from_stream

CollectStart == [objs |-> <<>>, buf |-> <<>>, collecting |-> FALSE]

\* try_flush()
try_flush(st) ==
    IF st.buf = <<>> THEN st
    ELSE LET Flush(o) ==
                IF o.t = "dict"
                THEN [objs |-> Append(st.objs, o), buf |-> <<>>, collecting |-> FALSE]
                ELSE st
         IN  Flush(json_loads(st.buf))

\* A plausible slip: the line that opens an accumulation is not parsed on
\* its own, the first attempt comes with the next line.
CollectLine_NoFirstFlush(st, ln) ==
    LET Line(s) ==
            IF ~st.collecting
            THEN IF StartsWith(s, "{")
                 THEN [st EXCEPT !.collecting = TRUE, !.buf = <<s>>]
                 ELSE st
            ELSE try_flush([st EXCEPT !.buf = Append(st.buf, s)])
    IN  Line(str_strip(ln))

\* One iteration of for line in lines.
CollectLine(st, ln) ==
    LET Line(s) ==
            IF ~st.collecting
            THEN IF StartsWith(s, "{")
                 THEN try_flush([st EXCEPT !.collecting = TRUE, !.buf = <<s>>])
                 ELSE st
            ELSE try_flush([st EXCEPT !.buf = Append(st.buf, s)])
    IN  Line(str_strip(ln))

RECURSIVE CollectLoop(_, _)
CollectLoop(st, lines) ==
    IF lines = <<>> THEN st
    ELSE CollectLine(CollectLoop(st, SubSeq(lines, 1, Len(lines) - 1)), lines[Len(lines)])

\* _collect_json_objects_from_stream(lines): objs
collect_json_objects_from_stream(lines) == CollectLoop(CollectStart, lines).objs

\* ------------------------------------------------------------------ the passes of parse_metrics_from_debuglog

\* The metric fields of TestRecord.
MetricFields ==
    { "spdk_iops", "spdk_mib_s", "spdk_lat_us", "fio_rbw_mib_s", "fio_wbw_mib_s",
      "fio_riops", "fio_wiops", "tps", "eps", "p50_us", "p99_us" }

\* A plausible slip: a key that is already set keeps its value.
DictUpdate_KeepOld(mm, res) ==
    [k \in (DOMAIN mm) \cup (DOMAIN res) |-> IF k \in DOMAIN mm THEN mm[k] ELSE res[k]]

\* m.update(res); m[key] = value is the update by (key :> value).
DictUpdate(mm, res) ==
    [k \in (DOMAIN mm) \cup (DOMAIN res) |-> IF k \in DOMAIN res THEN res[k] ELSE mm[k]]

\* word in test_name.lower()
HasWord(name, word) == \E p \in 1..Len(name) : Lower(name[p]) = word

\* A plausible slip: the first row is taken.
SpdkPass_FirstRow(mm, lines) ==
    LET First(g) ==
            DictUpdate(mm, ("spdk_iops" :> NumeralValue(g[1]))
                           @@ ("spdk_mib_s" :> NumeralValue(g[2]))
                           @@ ("spdk_lat_us" :> NumeralValue(g[3])))
        Rows(spdk_rows) ==
            IF spdk_rows = <<>> THEN mm ELSE First(spdk_rows[1].groups)
    IN  Rows(Matches(RE_SPDK_ROW, lines))

\* 1) SPDK perf: the last row.
SpdkPass(mm, lines) ==
    LET Last(g) ==
            DictUpdate(mm, ("spdk_iops" :> NumeralValue(g[1]))
                           @@ ("spdk_mib_s" :> NumeralValue(g[2]))
                           @@ ("spdk_lat_us" :> NumeralValue(g[3])))
        Rows(spdk_rows) ==
            IF spdk_rows = <<>> THEN mm ELSE Last(spdk_rows[Len(spdk_rows)].groups)
    IN  Rows(Matches(RE_SPDK_ROW, lines))

\* 2) checkmark BW summaries: the average of the passes, routed by the
\* test name.
PassBwPass(mm, name, lines) ==
    LET Route(avg) ==
            IF HasWord(name, "read") THEN DictUpdate(mm, "fio_rbw_mib_s" :> avg)
            ELSE IF HasWord(name, "write") THEN DictUpdate(mm, "fio_wbw_mib_s" :> avg)
            ELSE mm
        Average(bws) ==
            IF bws = <<>> THEN mm ELSE Route(FracDiv(FracSum(bws), Len(bws)))
        Values(ms) == Average([k \in 1..Len(ms) |-> NumeralValue(ms[k].groups[1])])
    IN  Values(Matches(RE_PASS_BW, lines))

\* 3) OLTP / Mixed summary: one iteration of the loop.
OltpMixedLine(mm, raw) ==
    LET Set(m0, mo) ==
            IF mo.ok
            THEN DictUpdate(m0, ("fio_riops" :> NumeralValue(mo.groups[1]))
                                @@ ("fio_wiops" :> NumeralValue(mo.groups[2])))
            ELSE m0
        Line(s) == Set(Set(mm, RE_search(RE_OLTP, s)), RE_search(RE_MIXED, s))
    IN  Line(strip_stdlog(raw))

RECURSIVE OltpMixedPass(_, _)
OltpMixedPass(mm, lines) ==
    IF lines = <<>> THEN mm
    ELSE OltpMixedLine(OltpMixedPass(mm, SubSeq(lines, 1, Len(lines) - 1)),
                       lines[Len(lines)])

\* 4) SQLite: every matching line sets both fields, the last one stays.
SqlitePass(mm, lines) ==
    LET Rates(ms) ==
            IF ms = <<>> THEN mm
            ELSE DictUpdate(mm, ("tps" :> NumeralValue(ms[Len(ms)].groups[1]))
                                @@ ("eps" :> NumeralValue(ms[Len(ms)].groups[2])))
    IN  Rates(Matches(RE_SQLITE, lines))

\* isinstance(v, (int, float)): a bool is an int.
IsNumber(v) == v.t \in {"num", "bool"}

\* A plausible slip: the median stored under the key of the JSON block's
\* naming, p50, which is no field of TestRecord.
BenchPass_ShortKey(mm, lines) ==
    LET Set(m0, key, p) == IF IsNumber(p) THEN DictUpdate(m0, key :> FloatOf(p)) ELSE m0
        Percentiles(lp) ==
            IF lp.t # "dict" THEN mm
            ELSE Set(Set(mm, "p50", DictGet(lp, "\"50th_us\"", PyNone)),
                     "p99_us", DictGet(lp, "\"99th_us\"", PyNone))
        Block(bench) ==
            IF bench.t # "dict" THEN mm
            ELSE Percentiles(DictGet(bench, "\"latency_percentiles\"", PyNone))
    IN  Block(extract_embedded_json_block(lines, MarkerBench))

\* 5) Embedded JSON blocks: "Benchmark results:".
BenchPass(mm, lines) ==
    LET Set(m0, key, p) == IF IsNumber(p) THEN DictUpdate(m0, key :> FloatOf(p)) ELSE m0
        Percentiles(lp) ==
            IF lp.t # "dict" THEN mm
            ELSE Set(Set(mm, "p50_us", DictGet(lp, "\"50th_us\"", PyNone)),
                     "p99_us", DictGet(lp, "\"99th_us\"", PyNone))
        Block(bench) ==
            IF bench.t # "dict" THEN mm
            ELSE Percentiles(DictGet(bench, "\"latency_percentiles\"", PyNone))
    IN  Block(extract_embedded_json_block(lines, MarkerBench))

\* A plausible slip: whether the file can be read is not considered.
read_text_safe_Unchecked(fls, path) == fls[path].text

\* read_text_safe(p): the text of the file, "" (no line) when reading fails.
read_text_safe(fls, path) == IF fls[path].readable THEN fls[path].text ELSE <<>>

\* 5) Embedded JSON blocks: "Filesystem test results:" names a file whose
\* JSON is read inside try/except.
FsPass(mm, lines, fls) ==
    LET Update(r) == IF r.raised THEN mm ELSE DictUpdate(mm, r.res)
        Object(fio_obj) ==
            IF fio_obj = JsonFail THEN mm ELSE Update(fio_metrics_from_json(fio_obj))
        Text(text) == Object(IF text = <<>> THEN EmptyDict ELSE json_loads(text))
        Path(jpath) ==
            IF ~(jpath.t = "str" /\ jpath.v # "\"\"") THEN mm
            ELSE IF jpath.v \notin DOMAIN fls THEN mm
            ELSE Text(read_text_safe(fls, jpath.v))
        Verify(fv) ==
            IF fv.t # "dict" THEN mm ELSE Path(DictGet(fv, "\"json\"", PyNone))
        Block(fs) ==
            IF fs.t # "dict" THEN mm
            ELSE Verify(DictGet(fs, "\"fio_file_verify\"", PyNone))
    IN  Block(extract_embedded_json_block(lines, MarkerFs))

\* A plausible slip: the last matching line is taken (no break).
IomixPass_LastLine(mm, lines) ==
    LET IsHit(s) ==
            /\ \E p \in 1..Len(s) : s[p] = "metrc:"
            /\ \E p \in 1..Len(s) : s[p] = "iomix"
            /\ FindNumbers(s) # <<>>
        Pick(nums) ==
            DictUpdate(mm, "eps" :> IF Len(nums) >= 2 THEN nums[Len(nums) - 1]
                                    ELSE nums[Len(nums)])
        Last(hits) ==
            IF hits = {} THEN mm
            ELSE Pick(FindNumbers(strip_stdlog(lines[MaxOf(hits)])))
    IN  Last({k \in 1..Len(lines) : IsHit(strip_stdlog(lines[k]))})

\* 6) stress-ng iomix: the first line with "metrc:", "iomix" and a number.
IomixPass(mm, lines) ==
    LET IsHit(s) ==
            /\ \E p \in 1..Len(s) : s[p] = "metrc:"
            /\ \E p \in 1..Len(s) : s[p] = "iomix"
            /\ FindNumbers(s) # <<>>
        Pick(nums) ==
            DictUpdate(mm, "eps" :> IF Len(nums) >= 2 THEN nums[Len(nums) - 1]
                                    ELSE nums[Len(nums)])
        First(hits) ==
            IF hits = {} THEN mm
            ELSE Pick(FindNumbers(strip_stdlog(lines[MinOf(hits)])))
    IN  First({k \in 1..Len(lines) : IsHit(strip_stdlog(lines[k]))})

\* A plausible slip: m = _fio_metrics_from_json(obj) in place of m.update.
StdoutJsonPass_Replace(mm, lines) ==
    LET Update(r) ==
            IF r.raised THEN [raised |-> TRUE, m |-> mm]
            ELSE [raised |-> FALSE, m |-> r.res]
        Last(fio_jsons, with_jobs) ==
            IF with_jobs = {} THEN [raised |-> FALSE, m |-> mm]
            ELSE Update(fio_metrics_from_json(fio_jsons[MaxOf(with_jobs)]))
        Objects(fio_jsons) ==
            Last(fio_jsons,
                 {k \in 1..Len(fio_jsons) : "\"jobs\"" \in DOMAIN fio_jsons[k].v})
    IN  Objects(collect_json_objects_from_stream(extract_stdout_stream(lines)))

\* 7) fio JSON from the stdout stream: the last object that has "jobs";
\* [raised, m], raised when _fio_metrics_from_json raises.
StdoutJsonPass(mm, lines) ==
    LET Update(r) ==
            IF r.raised THEN [raised |-> TRUE, m |-> mm]
            ELSE [raised |-> FALSE, m |-> DictUpdate(mm, r.res)]
        Last(fio_jsons, with_jobs) ==
            IF with_jobs = {} THEN [raised |-> FALSE, m |-> mm]
            ELSE Update(fio_metrics_from_json(fio_jsons[MaxOf(with_jobs)]))
        Objects(fio_jsons) ==
            Last(fio_jsons,
                 {k \in 1..Len(fio_jsons) : "\"jobs\"" \in DOMAIN fio_jsons[k].v})
    IN  Objects(collect_json_objects_from_stream(extract_stdout_stream(lines)))

\* parse_metrics_from_debuglog(test_name, debug_text) as one call: [raised, m].
parse_metrics_from_debuglog(name, lines, fls) ==
    StdoutJsonPass(
        IomixPass(
            FsPass(
                BenchPass(
                    SqlitePass(
                        OltpMixedPass(
                            PassBwPass(SpdkPass(<<>>, lines), name, lines),
                            lines),
                        lines),
                    lines),
                lines, fls),
            lines),
        lines)

\* ------------------------------------------------------------------ logs of one test

SpdkLine ==
    FullPrefix \o <<"PCIE", Space, "(", "0000:01:00.0", ")", Space, "NSID", Space, "1",
                    Space, "from", Space, "core", Space, "0", ":", Space, "2048",
                    Space, "12.5", Space, "55">>

PassLine(n, value, unit) ==
    FullPrefix \o <<Check, Space, "Pass", Space, n, ":", Space, value, Space, unit,
                    ",", Space, "202s">>

OltpLine ==
    FullPrefix \o <<Check, Space, "OLTP", ":", Space, "3", Space, "read", Space, "IOPS",
                    ",", Space, "2", Space, "write", Space, "IOPS">>

MixedLine ==
    FullPrefix \o <<Check, Space, "Mixed", Space, "50/50", ":", Space, "12", Space, "R",
                    Space, "+", Space, "55", Space, "W", Space, "=", Space, "100",
                    Space, "total", Space, "IOPS">>

SqliteLine ==
    FullPrefix \o <<Check, Space, "SQLite", Space, "insert", Space, "rate", ":", Space,
                    "2165.8", Space, "rows/s", ",", Space, "select", ":", Space,
                    "12.5", Space, "ops/s">>

IomixLine ==
    FullPrefix \o <<"stress-ng", ":", Space, "metrc:", Space, "[1234]", Space, "iomix",
                    Space, "1024", Space, "700", Space, "500">>

\* {"jobs": [{dir: {"bw": bw, "iops": iops}, ...}]} with one job.
FioTree(dirs) == TObj(<< <<"\"jobs\"", TArr(<<TObj(dirs)>>)>> >>)
FioDir(dir, bw, iops) == <<dir, TObj(<< <<"\"bw\"", bw>>, <<"\"iops\"", iops>> >>)>>

\* fio output on stdout: both directions, and one whose read bw is a string
\* that is no number.
StdoutFio ==
    FioTree(<<FioDir("\"read\"", TNum("1024"), TNum("100")),
              FioDir("\"write\"", TNum("512"), TNum("200"))>>)
StdoutFioBadBw == FioTree(<<FioDir("\"read\"", TStr("\"x\""), TNum("100"))>>)

\* The fio output in the file that the filesystem results name.
FileFio == FioTree(<<FioDir("\"read\"", TNum("2048"), TNum("200"))>>)

\* A pretty-printed document on stdout, as the process lines of debug.log.
StdoutLogged(tree) ==
    [k \in 1..Len(PrettyLines(tree, 0)) |->
        FullPrefix \o <<StdoutTag, Space>> \o PrettyLines(tree, 0)[k]]

LatencyTree ==
    TObj(<< <<"\"latency_percentiles\"",
              TObj(<< <<"\"50th_us\"", TNum("12")>>, <<"\"99th_us\"", TNum("55")>> >>)>> >>)

FsTree(path) ==
    TObj(<< <<"\"fio_file_verify\"", TObj(<< <<"\"json\"", TStr(path)>> >>)>> >>)

\* What a log holds for each extractor: nothing, or one of its shapes.
PassOpts == {<<>>, <<PassLine("1", "500", "MiB/s"), PassLine("2", "700", "MB/s")>>}
OltpOpts == {<<>>, <<OltpLine>>, <<OltpLine, MixedLine>>}
SqliteOpts == {<<>>, <<SqliteLine>>}
SpdkOpts == {<<>>, <<SpdkLine>>}
IomixOpts == {<<>>, <<IomixLine>>}
StdoutOpts == {<<>>, StdoutLogged(StdoutFio), StdoutLogged(StdoutFioBadBw)}
BenchOpts == {<<>>, LoggedBlock(FullPrefix, MarkerBench, LatencyTree, "cont")}
FsOpts ==
    { <<>>,
      LoggedBlock(FullPrefix, MarkerFs, FsTree("\"/tmp/a.json\""), "cont"),
      LoggedBlock(FullPrefix, MarkerFs, FsTree("\"/tmp/b.json\""), "cont") }

TestLogs ==
    { a \o b \o c \o d \o e \o f \o g \o h :
        a \in PassOpts, b \in OltpOpts, c \in SqliteOpts, d \in SpdkOpts,
        e \in IomixOpts, f \in StdoutOpts, g \in BenchOpts, h \in FsOpts }

TestNames == {<<"seq_", "Read">>, <<"rand_", "write">>, <<"dimm_", "x">>}

\* /tmp/a.json exists (with fio output, with text that is no JSON, or
\* unreadable), /tmp/b.json does not.
FileSystems ==
    { ("\"/tmp/a.json\"" :> [readable |-> TRUE, text |-> PrettyLines(FileFio, 0)]),
      ("\"/tmp/a.json\"" :> [readable |-> TRUE, text |-> <<<<"{">>>>]),
      ("\"/tmp/a.json\"" :> [readable |-> FALSE, text |-> <<>>]) }

\* ------------------------------------------------------------------ Spec: parse_metrics_from_debuglog

Init ==
    /\ debug_text \in TestLogs
    /\ test_name \in TestNames
    /\ files \in FileSystems
    /\ ppc = "spdk"
    /\ m = <<>>
    /\ StripIdle
    /\ StreamIdle
    /\ BlockIdle
    /\ JobIdle
    /\ CollectIdle
    /\ LockIdle

Spdk ==
    /\ ppc = "spdk"
    /\ m' = SpdkPass(m, debug_text)
    /\ ppc' = "pass_bw"
    /\ UNCHANGED <<debug_text, test_name, files, NotPipe>>

PassBw ==
    /\ ppc = "pass_bw"
    /\ m' = PassBwPass(m, test_name, debug_text)
    /\ ppc' = "oltp_mixed"
    /\ UNCHANGED <<debug_text, test_name, files, NotPipe>>

OltpMixed ==
    /\ ppc = "oltp_mixed"
    /\ m' = OltpMixedPass(m, debug_text)
    /\ ppc' = "sqlite"
    /\ UNCHANGED <<debug_text, test_name, files, NotPipe>>

Sqlite ==
    /\ ppc = "sqlite"
    /\ m' = SqlitePass(m, debug_text)
    /\ ppc' = "bench"
    /\ UNCHANGED <<debug_text, test_name, files, NotPipe>>

Bench ==
    /\ ppc = "bench"
    /\ m' = BenchPass(m, debug_text)
    /\ ppc' = "fs"
    /\ UNCHANGED <<debug_text, test_name, files, NotPipe>>

Fs ==
    /\ ppc = "fs"
    /\ m' = FsPass(m, debug_text, files)
    /\ ppc' = "app"
    /\ UNCHANGED <<debug_text, test_name, files, NotPipe>>

\* app = _extract_embedded_json_block(...): nothing is taken from it.
App ==
    /\ ppc = "app"
    /\ ppc' = "iomix"
    /\ UNCHANGED <<debug_text, test_name, files, m, NotPipe>>

Iomix ==
    /\ ppc = "iomix"
    /\ m' = IomixPass(m, debug_text)
    /\ ppc' = "stdout_json"
    /\ UNCHANGED <<debug_text, test_name, files, NotPipe>>

\* The last pass, and return m; an exception of _fio_metrics_from_json
\* leaves the function.
StdoutJson ==
    /\ ppc = "stdout_json"
    /\ LET Return(r) ==
               /\ m' = r.m
               /\ ppc' = IF r.raised THEN "raised" ELSE "returned"
       IN  Return(StdoutJsonPass(m, debug_text))
    /\ UNCHANGED <<debug_text, test_name, files, NotPipe>>

Next ==
    \/ Spdk \/ PassBw \/ OltpMixed \/ Sqlite \/ Bench \/ Fs \/ App \/ Iomix
    \/ StdoutJson

Spec == Init /\ [][Next]_vars

\* ------------------------------------------------------------------ C1, C2

\* The samples that one extractor produces from the log of the test: the
\* fields it sets, with their values.
C1_Samples(x) ==
    CASE x = "checkmark" -> PassBwPass(<<>>, test_name, debug_text)
      [] x = "oltp_mixed" -> OltpMixedPass(<<>>, debug_text)
      [] x = "rate_pair" -> SqlitePass(<<>>, debug_text)
      [] x = "tabular" -> SpdkPass(<<>>, debug_text)
      [] x = "micro_benchmark" -> IomixPass(<<>>, debug_text)
      [] x = "aggregate_json" -> StdoutJsonPass(<<>>, debug_text).m
      [] x = "latency_json" -> BenchPass(<<>>, debug_text)
      [] x = "file_json" -> FsPass(<<>>, debug_text, files)

\* In the returned mapping every field that two or more extractors produce
\* holds the value of the one that stands last in order.
C1_LastWins(order) ==
    ppc = "returned" =>
        LET LastOf(samples, f, producers) ==
                Cardinality(producers) >= 2 =>
                    /\ f \in DOMAIN m
                    /\ m[f] = samples[MaxOf(producers)][f]
            Agree(samples) ==
                \A f \in MetricFields :
                    LastOf(samples, f, {k \in 1..8 : f \in DOMAIN samples[k]})
        IN  Agree(<<C1_Samples(order[1]), C1_Samples(order[2]), C1_Samples(order[3]),
                    C1_Samples(order[4]), C1_Samples(order[5]), C1_Samples(order[6]),
                    C1_Samples(order[7]), C1_Samples(order[8])>>)

\* C1 as stated: when two or more extractors produce a value for the same
\* field, the final value is the one of the extractor that comes latest in
\* the order of the extractor table (checkmark, OLTP/mixed, rate pair,
\* tabular, micro-benchmark, aggregate JSON, latency JSON, file-referenced
\* JSON).
C1_TableOrder ==
    C1_LastWins(<<"checkmark", "oltp_mixed", "rate_pair", "tabular", "micro_benchmark",
                  "aggregate_json", "latency_json", "file_json">>)

\* C1 as amended: the final value is the one of the extractor that comes
\* latest in the order in which parse_metrics_from_debuglog runs them
\* (tabular, checkmark, OLTP/mixed, rate pair, latency JSON,
\* file-referenced JSON, micro-benchmark, aggregate JSON of the stdout
\* stream).
C1_ExecutionOrder ==
    C1_LastWins(<<"tabular", "checkmark", "oltp_mixed", "rate_pair", "latency_json",
                  "file_json", "micro_benchmark", "aggregate_json">>)

\* C1 witness: the checkmark summary, the file-referenced JSON and the
\* aggregate JSON of the stdout stream all produced a read bandwidth, with
\* three different values, and the mapping returned holds the last one.
C1_Witness ==
    /\ ppc = "returned"
    /\ "fio_rbw_mib_s" \in DOMAIN C1_Samples("checkmark")
    /\ "fio_rbw_mib_s" \in DOMAIN C1_Samples("file_json")
    /\ "fio_rbw_mib_s" \in DOMAIN C1_Samples("aggregate_json")
    /\ C1_Samples("checkmark")["fio_rbw_mib_s"] = <<600, 1>>
    /\ C1_Samples("file_json")["fio_rbw_mib_s"] = <<2, 1>>
    /\ C1_Samples("aggregate_json")["fio_rbw_mib_s"] = <<1, 1>>
    /\ m["fio_rbw_mib_s"] = <<1, 1>>

\* C2: for every log text and test name parse_metrics_from_debuglog
\* returns a metrics mapping and never raises; a wrongly typed value (such
\* as a non-numeric bw in a jobs entry of a JSON object of the stdout
\* stream) only leaves the sample out.
C2_NeverRaises ==
    /\ ppc # "raised"
    /\ ppc = "returned" => DOMAIN m \subseteq MetricFields

\* ------------------------------------------------------------------ build_records_for_job

\* --min-tests (its default).
MinTests == 2

RecordFields ==
    {"job_id", "job_dir", "suite", "test_name", "status", "duration_s", "start_time",
     "end_time"} \cup MetricFields

\* A plausible slip: the storage keywords tested before the memory keywords.
classify_suite_StorageFirst(name) ==
    IF \/ HasWord(name, "storage") \/ HasWord(name, "nvme")
       \/ HasWord(name, "spdk") \/ HasWord(name, "fio")
    THEN "storage"
    ELSE IF HasWord(name, "dimm") \/ HasWord(name, "memory") THEN "memory"
    ELSE "other"

\* classify_suite(test_name)
classify_suite(name) ==
    IF HasWord(name, "dimm") \/ HasWord(name, "memory") THEN "memory"
    ELSE IF \/ HasWord(name, "storage") \/ HasWord(name, "nvme")
            \/ HasWord(name, "spdk") \/ HasWord(name, "fio")
         THEN "storage"
    ELSE "other"

\* to_float(x)
to_float(x) ==
    IF x.t = "none" \/ FloatOf(x) = FloatRaise THEN PyNone
    ELSE [t |-> "num", v |-> FloatOf(x)]

\* v or default
PyOr(v, default) == IF Falsy(v) THEN default ELSE v

\* A plausible slip: the metric fields default to 0.0.
TestRecord_ZeroDefault(job_id, job_dir, suite, name, status, duration_s, start_time, end_time) ==
    [a \in RecordFields |->
        CASE a = "job_id" -> PyStr(job_id)
          [] a = "job_dir" -> PyStr(job_dir)
          [] a = "suite" -> PyStr(suite)
          [] a = "test_name" -> PyStr(name)
          [] a = "status" -> status
          [] a = "duration_s" -> [t |-> "num", v |-> duration_s]
          [] a = "start_time" -> start_time
          [] a = "end_time" -> end_time
          [] OTHER -> PyNum(0, 1)]

\* TestRecord(...): the metric fields default to None.
TestRecord(job_id, job_dir, suite, name, status, duration_s, start_time, end_time) ==
    [a \in RecordFields |->
        CASE a = "job_id" -> PyStr(job_id)
          [] a = "job_dir" -> PyStr(job_dir)
          [] a = "suite" -> PyStr(suite)
          [] a = "test_name" -> PyStr(name)
          [] a = "status" -> status
          [] a = "duration_s" -> [t |-> "num", v |-> duration_s]
          [] a = "start_time" -> start_time
          [] a = "end_time" -> end_time
          [] OTHER -> PyNone]

\* for k, v in metrics.items(): setattr(rec, k, v)
SetAttrs(rec, metrics) ==
    [a \in (DOMAIN rec) \cup (DOMAIN metrics) |->
        IF a \in DOMAIN metrics THEN [t |-> "num", v |-> metrics[a]] ELSE rec[a]]

\* One iteration of the loop over tests: [raised, rec].  The entry t holds
\* what t.get() finds (None for a missing key) and, as log, whether
\* find_debug_log finds a debug.log and the text read from it.
BuildRecord(t, fls) ==
    LET WithMetrics(rec, metrics) ==
            IF metrics.raised THEN [raised |-> TRUE, rec |-> <<>>]
            ELSE [raised |-> FALSE, rec |-> SetAttrs(rec, metrics.m)]
        WithRecord(name, dur, rec) ==
            IF dur = FloatRaise THEN [raised |-> TRUE, rec |-> <<>>]
            ELSE IF ~t.log.found THEN [raised |-> FALSE, rec |-> rec]
            ELSE WithMetrics(rec, parse_metrics_from_debuglog(name, t.log.text, fls))
        Build(name, dur) ==
            WithRecord(name, dur,
                       TestRecord("job-1", "/results/job-1", classify_suite(name), name,
                                  PyOr(t.status, PyStr("UNKNOWN")), dur,
                                  to_float(t.actual_time_start),
                                  to_float(t.actual_time_end)))
    IN  Build(IF t.name.t = "str" THEN t.name.v ELSE <<>>, FloatOr0(t.time_elapsed))

\* The test entries of results.json.
Entry(name, log) ==
    [name |-> PyStr(name), status |-> PyStr("PASS"), time_elapsed |-> PyNum(3, 2),
     actual_time_start |-> PyNum(100, 1), actual_time_end |-> PyNone, log |-> log]

NoLog == [found |-> FALSE, text |-> <<>>]
Log(text) == [found |-> TRUE, text |-> text]

JobLogs ==
    { NoLog, Log(<<>>),
      Log(<<SqliteLine>>),
      Log(<<PassLine("1", "500", "MiB/s"), PassLine("2", "700", "MB/s")>>),
      Log(StdoutLogged(StdoutFio)),
      Log(StdoutLogged(StdoutFioBadBw)) }

\* Test names, as lexemes none of which holds a keyword of classify_suite
\* inside a longer word: of the storage suite, of the memory suite (one of
\* them with a storage keyword too), and of neither.
SuiteNames ==
    { <<"nvme", "_", "Read">>, <<"DIMM", "_", "fio">>, <<"memory", "_", "x">>,
      <<"spdk">>, <<"storage">>, <<"fio">>, <<"x", "_", "Read">> }

JobEntries ==
    { Entry(<<"nvme", "_", "Read">>, log) : log \in JobLogs }
    \cup { Entry(name, NoLog) : name \in SuiteNames }
    \cup { [name |-> PyNone, status |-> PyNone, time_elapsed |-> PyNone,
            actual_time_start |-> PyNone, actual_time_end |-> PyNone, log |-> NoLog] }

\* ------------------------------------------------------------------ SpecJob: main, for one job directory

InitJob ==
    /\ job_dir_given \in BOOLEAN
    /\ tests \in SeqsUpTo(JobEntries, MaxTests)
    /\ jk = 0
    /\ rows = <<>>
    /\ jpc = "main"
    /\ all_rows = <<>>
    /\ StripIdle
    /\ StreamIdle
    /\ BlockIdle
    /\ PipeIdle
    /\ CollectIdle
    /\ LockIdle

\* if not args.job_dir and len(tests) < args.min_tests: continue
MainIgnore ==
    /\ jpc = "main"
    /\ ~job_dir_given /\ Len(tests) < MinTests
    /\ jpc' = "ignored"
    /\ UNCHANGED <<job_dir_given, tests, jk, rows, all_rows, NotJob>>

\* rows = build_records_for_job(jd, ...): the call
MainCall ==
    /\ jpc = "main"
    /\ job_dir_given \/ Len(tests) >= MinTests
    /\ jpc' = "loop"
    /\ UNCHANGED <<job_dir_given, tests, jk, rows, all_rows, NotJob>>

\* for t in tests: ... rows.append(rec); an exception leaves the function
JobRecord ==
    /\ jpc = "loop"
    /\ jk < Len(tests)
    /\ LET Iteration(r) ==
               IF r.raised
               THEN jpc' = "raised" /\ UNCHANGED <<jk, rows>>
               ELSE jpc' = jpc /\ jk' = jk + 1 /\ rows' = Append(rows, r.rec)
       IN  Iteration(BuildRecord(tests[jk + 1], files))
    /\ UNCHANGED <<job_dir_given, tests, all_rows, NotJob>>

\* return rows
JobReturn ==
    /\ jpc = "loop"
    /\ jk = Len(tests)
    /\ jpc' = "returned"
    /\ UNCHANGED <<job_dir_given, tests, jk, rows, all_rows, NotJob>>

\* all_rows.extend(rows)
MainExtend ==
    /\ jpc = "returned"
    /\ all_rows' = all_rows \o rows
    /\ jpc' = "extended"
    /\ UNCHANGED <<job_dir_given, tests, jk, rows, NotJob>>

\* except Exception as e: the rows of the job are dropped
MainCatch ==
    /\ jpc = "raised"
    /\ jpc' = "caught"
    /\ UNCHANGED <<job_dir_given, tests, jk, rows, all_rows, NotJob>>

NextJob == MainIgnore \/ MainCall \/ JobRecord \/ JobReturn \/ MainExtend \/ MainCatch

SpecJob == InitJob /\ [][NextJob]_vars

\* ------------------------------------------------------------------ C3

\* C3: for every results index build_records_for_job yields exactly one
\* TestRecord per test entry, in index order, whatever the logs of the
\* entries contain; an entry without a log yields a record with identity,
\* status and duration populated and every metric field None.
C3_OneRecordPerEntry ==
    /\ jpc \notin {"raised", "caught"}
    /\ jpc \in {"returned", "extended"} =>
        /\ Len(rows) = Len(tests)
        /\ \A k \in 1..Len(tests) :
            /\ rows[k]["test_name"] = PyOr(tests[k].name, PyStr(<<>>))
            /\ rows[k]["status"] = PyOr(tests[k].status, PyStr("UNKNOWN"))
            /\ rows[k]["duration_s"].t = "num"
            /\ ~tests[k].log.found => \A f \in MetricFields : rows[k][f] = PyNone

\* ------------------------------------------------------------------ SpecStdout: step 7, line by line

\* Longest log (in lines) of single-line stdout fragments handed to the
\* stream reconstruction and the collector.
MaxCollectLen == 4

\* A plausible slip: the first object that has "jobs" is taken.
LastFioJson_First(fio_jsons) ==
    LET Call(r) == [called |-> TRUE, raised |-> r.raised, res |-> r.res]
        Last(with_jobs) ==
            IF with_jobs = {} THEN [called |-> FALSE, raised |-> FALSE, res |-> <<>>]
            ELSE Call(fio_metrics_from_json(fio_jsons[MinOf(with_jobs)]))
    IN  Last({k \in 1..Len(fio_jsons) : "\"jobs\"" \in DOMAIN fio_jsons[k].v})

\* for obj in reversed(fio_jsons): if isinstance(obj, dict) and "jobs" in
\* obj: m.update(_fio_metrics_from_json(obj)); break.  [called, raised, res]:
\* whether an object had "jobs", whether the call raised, and its result.
LastFioJson(fio_jsons) ==
    LET Call(r) == [called |-> TRUE, raised |-> r.raised, res |-> r.res]
        Last(with_jobs) ==
            IF with_jobs = {} THEN [called |-> FALSE, raised |-> FALSE, res |-> <<>>]
            ELSE Call(fio_metrics_from_json(fio_jsons[MaxOf(with_jobs)]))
    IN  Last({k \in 1..Len(fio_jsons) : "\"jobs\"" \in DOMAIN fio_jsons[k].v})

\* What one line of a process's stdout holds.
CollectPayloads ==
    { <<"{">>, <<"}">>, <<"\"a\"", ":", Space, "1">>,
      <<"{", "\"a\"", ":", Space, "1", "}">>, <<"x">> }

\* Logs of stdout lines, each tagged [stdout].
TaggedLogs ==
    { [k \in 1..Len(ps) |-> <<StdoutTag, Space>> \o ps[k]] :
        ps \in SeqsUpTo(CollectPayloads, MaxCollectLen) }

\* A pretty-printed document of which every line carries the same
\* decoration: the [stdout] tag after a full prefix, a full prefix only, or
\* a continuation prefix only.
LineDecoration(mode) ==
    CASE mode = "stdout" -> FullPrefix \o <<StdoutTag, Space>>
      [] mode = "full" -> FullPrefix
      [] mode = "cont" -> ContPrefix

DecoratedLines(tree, mode) ==
    [k \in 1..Len(PrettyLines(tree, 0)) |-> LineDecoration(mode) \o PrettyLines(tree, 0)[k]]

LineModes == {"stdout", "full", "cont"}

DecoratedLogs == { DecoratedLines(tree, mode) : tree \in SmallTrees, mode \in LineModes }

\* fio output objects: {"jobs": jobs}.
FioJobs(jobs) == TObj(<< <<"\"jobs\"", jobs>> >>)

FioTrees ==
    { StdoutFio,
      StdoutFioBadBw,
      FioJobs(TArr(<<TObj(<<FioDir("\"read\"", TNum("1024"), TNum("100"))>>),
                     TObj(<<FioDir("\"read\"", TNum("2048"), TNum("200")),
                            FioDir("\"write\"", TNum("512"), TNum("3"))>>)>>)),
      FioJobs(TArr(<<TNum("1"),
                     TObj(<< <<"\"read\"", TObj(<< <<"\"bw\"", TNum("512")>> >>)>> >>)>>)),
      FioJobs(TArr(<<TObj(<<FioDir("\"read\"", TNum("0"), TNum("0")),
                            FioDir("\"write\"", TNum("0"), TNum("12"))>>)>>)),
      FioJobs(TArr(<<TObj(<< <<"\"read\"", TNum("1")>>,
                             FioDir("\"write\"", TNum("1024"), TNum("0"))>>)>>)),
      FioJobs(TArr(<<>>)),
      FioJobs(TNum("1")),
      FioJobs(TObj(<<FioDir("\"read\"", TNum("1024"), TNum("100"))>>)) }

\* The fio objects as the process lines of debug.log, alone and after
\* another object.
FioLogs ==
    { StdoutLogged(t) : t \in FioTrees }
        \cup { StdoutLogged(StdoutFio) \o StdoutLogged(t) : t \in FioTrees }
        \cup { StdoutLogged(t) \o StdoutLogged(TObj(<< <<"\"a\"", TNum("1")>> >>)) :
                 t \in FioTrees }

StdoutLogs == TaggedLogs \cup DecoratedLogs \cup FioLogs

InitStdout ==
    /\ slog \in StdoutLogs
    /\ sk = 0
    /\ sout = <<>>
    /\ ck = 0
    /\ cst = CollectStart
    /\ fres = <<>>
    /\ StripIdle
    /\ BlockIdle
    /\ PipeIdle
    /\ JobIdle
    /\ LockIdle

\* for line in lines: ... (one iteration), once the stream is complete
CollectStep ==
    /\ sk = Len(slog)
    /\ ck < Len(sout)
    /\ ck' = ck + 1
    /\ cst' = CollectLine(cst, sout[ck + 1])
    /\ UNCHANGED <<fres, NotCollect>>

\* the last object that has "jobs" is handed to _fio_metrics_from_json
FioLast ==
    /\ sk = Len(slog)
    /\ ck = Len(sout)
    /\ fres = <<>>
    /\ fres' = LastFioJson(cst.objs)
    /\ UNCHANGED <<ck, cst, NotCollect>>

NextStdout == StreamLine \/ CollectStep \/ FioLast

SpecStdout == InitStdout /\ [][NextStdout]_vars

\* ------------------------------------------------------------------ C11

\* The last line of the first run of lines i..j that parses as a JSON
\* object, 0 when no run that starts at line i parses.
C11_RunEnd(lines, i) ==
    LET Ends(js) == IF js = {} THEN 0 ELSE MinOf(js)
    IN  Ends({j \in i..Len(lines) : json_loads(SubSeq(lines, i, j)).t = "dict"})

\* What the collector has emitted after the given lines, by the rule of the
\* claim, and whether it is accumulating: lines that do not begin with "{"
\* are ignored, a line that begins with "{" opens a run, the run ends at
\* the first line with which it parses and emits the object, and a run
\* that never parses emits nothing and takes every later line.
RECURSIVE C11_Collected(_, _, _)
C11_Collected(lines, i, objs) ==
    IF i > Len(lines) THEN [objs |-> objs, open |-> FALSE]
    ELSE IF ~StartsWith(lines[i], "{") THEN C11_Collected(lines, i + 1, objs)
    ELSE LET Run(j) ==
                IF j = 0 THEN [objs |-> objs, open |-> TRUE]
                ELSE C11_Collected(lines, j + 1,
                                   Append(objs, json_loads(SubSeq(lines, i, j))))
         IN  Run(C11_RunEnd(lines, i))

\* C11: the JSON object collector ignores lines that do not begin with "{"
\* while it is not accumulating, starts accumulating at a line that begins
\* with "{", attempts a parse after every line it appends, emits the object
\* at the first successful parse and stops accumulating; an accumulation
\* that never parses emits nothing, for itself and for every later line.
\* The objects come from disjoint runs of lines, in the order of the runs.
C11_CollectorRuns ==
    cst # <<>> =>
        LET Same(ref) == cst.objs = ref.objs /\ cst.collecting = ref.open
        IN  Same(C11_Collected(SubSeq(sout, 1, ck), 1, <<>>))

\* C11 witness: the whole stream is read, a one-line object and an object
\* of three lines have been emitted in this order.
C11_Witness ==
    /\ cst # <<>>
    /\ ck = Len(sout)
    /\ sout = << <<"{", "\"a\"", ":", Space, "1", "}">>, <<"{">>,
                 <<"\"a\"", ":", Space, "1">>, <<"}">> >>
    /\ Len(cst.objs) = 2
    /\ ~cst.collecting

\* ------------------------------------------------------------------ C12

\* C12: for every JSON object pretty-printed over several lines of which
\* each line is decorated (with the [stdout] tag, or with a full or a
\* continuation prefix only), stream reconstruction followed by the
\* collector emits an object equal to the original.
C12_Reassembly ==
    \A tree \in SmallTrees, mode \in LineModes :
        (/\ slog = DecoratedLines(tree, mode)
         /\ sk = Len(slog)
         /\ ck = Len(sout)
         /\ cst # <<>>)
            => cst.objs = <<TreeValue(tree)>>

\* ------------------------------------------------------------------ C15

\* The sum over the entries of jobs of entry[dir][key]: an entry that is no
\* object, that has no dir, whose dir is no object or has no key, adds zero.
RECURSIVE C15_Sum(_, _, _)
C15_Sum(jobs, dir, key) ==
    IF jobs = <<>> THEN <<0, 1>>
    ELSE LET Term(j) ==
                IF /\ j.t = "dict"
                   /\ dir \in DOMAIN j.v
                   /\ j.v[dir].t = "dict"
                   /\ key \in DOMAIN j.v[dir].v
                   /\ j.v[dir].v[key].t = "num"
                THEN j.v[dir].v[key].v
                ELSE <<0, 1>>
         IN  FracAdd(Term(Head(jobs)), C15_Sum(Tail(jobs), dir, key))

\* The value the claim gives to a field for a list of jobs.
C15_Value(jobs, field) ==
    CASE field = "fio_rbw_mib_s" -> FracDiv(C15_Sum(jobs, "\"read\"", "\"bw\""), 1024)
      [] field = "fio_wbw_mib_s" -> FracDiv(C15_Sum(jobs, "\"write\"", "\"bw\""), 1024)
      [] field = "fio_riops" -> C15_Sum(jobs, "\"read\"", "\"iops\"")
      [] field = "fio_wiops" -> C15_Sum(jobs, "\"write\"", "\"iops\"")

C15_Fields == {"fio_rbw_mib_s", "fio_wbw_mib_s", "fio_riops", "fio_wiops"}

\* The fields the claim gives for an object that has "jobs": those of
\* which the sum is not zero; none when jobs is no list.
C15_Yield(obj) ==
    IF obj.v["\"jobs\""].t # "list" THEN <<>>
    ELSE [f \in {g \in C15_Fields : C15_Value(obj.v["\"jobs\""].v, g)[1] > 0} |->
            C15_Value(obj.v["\"jobs\""].v, f)]

\* C15: for every JSON object with "jobs", _fio_metrics_from_json yields,
\* for read and for write, bandwidth = (sum over jobs of bw) / 1024 and
\* IOPS = sum over jobs of iops; entries that are no objects and missing
\* keys add zero, a field whose sum is zero is omitted, and an object whose
\* jobs is no list yields no field.
C15_AggregateSums ==
    (fres # <<>> /\ fres.called) =>
        LET Yields(obj) ==
                /\ ~fres.raised
                /\ DOMAIN fres.res = DOMAIN C15_Yield(obj)
                /\ \A f \in DOMAIN fres.res : fres.res[f] = C15_Yield(obj)[f]
        IN  Yields(cst.objs[MaxOf({k \in 1..Len(cst.objs) :
                                     "\"jobs\"" \in DOMAIN cst.objs[k].v})])

\* ------------------------------------------------------------------ SpecPasses: the passes on the shapes of each extractor

OltpLineOf(r, w) ==
    FullPrefix \o <<Check, Space, "OLTP", ":", Space, r, Space, "read", Space, "IOPS",
                    ",", Space, w, Space, "write", Space, "IOPS">>

MixedLineOf(r, w, total) ==
    FullPrefix \o <<Check, Space, "Mixed", Space, "50/50", ":", Space, r, Space, "R",
                    Space, "+", Space, w, Space, "W", Space, "=", Space, total,
                    Space, "total", Space, "IOPS">>

SpdkLineOf(iops, mib, lat) ==
    FullPrefix \o <<"PCIE", Space, "(", "0000:01:00.0", ")", Space, "NSID", Space, "1",
                    Space, "from", Space, "core", Space, "0", ":", Space, iops,
                    Space, mib, Space, lat>>

\* A stress-ng metrics line with the given text after "iomix".
IomixLineOf(rest) ==
    FullPrefix \o <<"stress-ng", ":", Space, "metrc:", Space, "iomix">> \o rest

\* Longest log (in lines) of pass lines, of OLTP/mixed lines, of SPDK rows
\* and of stress-ng lines.
MaxPassLines == 2
MaxIopsLines == 2
MaxSpdkRows == 2
MaxIomixLines == 2

PassValues == {"500", "700"}
PassUnits == {"MiB/s", "MB/s"}

PassLogs ==
    { ls \in SeqsUpTo({PassLine("1", v, u) : v \in PassValues, u \in PassUnits},
                      MaxPassLines) : ls # <<>> }

PassNames == TestNames \cup {<<"Read", "_", "write">>, <<"WRITE", "_", "read">>}

IopsLines ==
    { OltpLineOf("3", "2"), OltpLineOf("12", "55"), MixedLineOf("100", "200", "500"),
      OtherLine }

SpdkRows == {SpdkLineOf("2048", "12.5", "55"), SpdkLineOf("1024", "3", "12"), OtherLine}

IomixLines ==
    { IomixLineOf(<<Space, "x">>),
      IomixLineOf(<<Space, "700">>),
      IomixLineOf(<<Space, "700", Space, "500">>),
      IomixLineOf(<<Space, "12", Space, "55", Space, "100">>),
      IomixLineOf(<<Space, "[1234]", Space, "x", Space, "55">>),
      IomixLine }

\* What "Benchmark results:" is followed by.
BenchTrees ==
    { LatencyTree,
      TObj(<< <<"\"latency_percentiles\"",
                TObj(<< <<"\"50th_us\"", TNum("12")>>, <<"\"a\"", TNum("55")>> >>)>> >>),
      TObj(<< <<"\"latency_percentiles\"",
                TObj(<< <<"\"50th_us\"", TStr("\"12\"")>>, <<"\"99th_us\"", TNum("12.5")>>,
                        <<"\"b\"", TNum("100")>> >>)>> >>),
      TObj(<< <<"\"latency_percentiles\"",
                TObj(<< <<"\"50th_us\"", TLit("true")>>, <<"\"99th_us\"", TLit("null")>> >>)>> >>),
      TObj(<< <<"\"latency_percentiles\"", TObj(<< <<"\"99th_us\"", TNum("0")>> >>)>> >>),
      TObj(<< <<"\"latency_percentiles\"", TArr(<<TNum("12"), TNum("55")>>)>> >>),
      TObj(<< <<"\"a\"", TNum("1")>> >>) }

\* What "Filesystem test results:" is followed by.
FsTrees ==
    { FsTree("\"/tmp/a.json\""),
      FsTree("\"/tmp/b.json\""),
      FsTree("\"\""),
      TObj(<< <<"\"fio_file_verify\"", TObj(<< <<"\"json\"", TNum("1")>> >>)>> >>),
      TObj(<< <<"\"fio_file_verify\"", TNum("1")>> >>),
      TObj(<< <<"\"a\"", TNum("1")>> >>) }

\* /tmp/a.json with fio output (of one job, of two directions, with a bw
\* that is no number), with an object without jobs, with a list, with text
\* that is no JSON, empty, or unreadable (with or without content);
\* /tmp/b.json does not exist.
FsFiles ==
    FileSystems \cup
    { ("\"/tmp/a.json\"" :> [readable |-> TRUE, text |-> PrettyLines(StdoutFio, 0)]),
      ("\"/tmp/a.json\"" :> [readable |-> TRUE, text |-> PrettyLines(StdoutFioBadBw, 0)]),
      ("\"/tmp/a.json\"" :> [readable |-> TRUE,
                             text |-> PrettyLines(TObj(<< <<"\"a\"", TNum("1")>> >>), 0)]),
      ("\"/tmp/a.json\"" :> [readable |-> TRUE,
                             text |-> PrettyLines(TArr(<<TNum("1")>>), 0)]),
      ("\"/tmp/a.json\"" :> [readable |-> TRUE, text |-> <<>>]),
      ("\"/tmp/a.json\"" :> [readable |-> FALSE, text |-> PrettyLines(FileFio, 0)]) }

NoFiles == CHOOSE f \in FileSystems : ~f["\"/tmp/a.json\""].readable

\* The inputs of parse_metrics_from_debuglog: <<debug_text, test_name, files>>.
PassInputs ==
    { <<log, name, NoFiles>> : log \in PassLogs, name \in PassNames }
        \cup { <<tab \o log, <<"dimm_", "x">>, NoFiles>> :
                 tab \in SeqsUpTo(SpdkRows, MaxSpdkRows),
                 log \in SeqsUpTo(IopsLines, MaxIopsLines) }
        \cup { <<pre \o log, <<"dimm_", "x">>, NoFiles>> :
                 pre \in SqliteOpts, log \in SeqsUpTo(IomixLines, MaxIomixLines) }
        \cup { <<pre \o LoggedBlock(FullPrefix, MarkerBench, tree, "cont") \o post,
                 <<"dimm_", "x">>, NoFiles>> :
                 pre \in SqliteOpts, tree \in BenchTrees,
                 post \in {<<>>, LoggedBlock(FullPrefix, MarkerBench, LatencyTree, "cont")} }
        \cup { <<pre \o LoggedBlock(FullPrefix, MarkerFs, tree, "cont"),
                 <<"dimm_", "x">>, fls>> :
                 pre \in OltpOpts, tree \in FsTrees, fls \in FsFiles }
        \cup { <<pre \o StdoutLogged(tree), <<"dimm_", "x">>, NoFiles>> :
                 pre \in OltpOpts, tree \in {FileFio, StdoutFio} }

InitPasses ==
    /\ \E inp \in PassInputs :
          /\ debug_text = inp[1]
          /\ test_name = inp[2]
          /\ files = inp[3]
    /\ ppc = "spdk"
    /\ m = <<>>
    /\ StripIdle
    /\ StreamIdle
    /\ BlockIdle
    /\ JobIdle
    /\ CollectIdle
    /\ LockIdle

SpecPasses == InitPasses /\ [][Next]_vars

\* ------------------------------------------------------------------ C13, C14

\* The line is a checkmark pass line.
C13_IsPass(ln) == \E v \in PassValues, u \in PassUnits : ln = PassLine("1", v, u)

\* The number and the unit that a pass line states.
C13_Value(ln) ==
    NumeralValue(CHOOSE v \in PassValues : \E u \in PassUnits : ln = PassLine("1", v, u))
C13_Unit(ln) ==
    CHOOSE u \in PassUnits : \E v \in PassValues : ln = PassLine("1", v, u)

\* The arithmetic mean of the values of the pass lines.
C13_Mean(lines) ==
    LET Mean(ps) == FracDiv(FracSum([k \in 1..Len(ps) |-> C13_Value(ps[k])]), Len(ps))
    IN  Mean(SelectSeq(lines, C13_IsPass))

\* The test name contains the word in some letter case.
C13_NameHas(words) == \E p \in 1..Len(test_name) : test_name[p] \in words

\* C13: when at least one line matches the checkmark pass pattern, the
\* read-bandwidth field is the arithmetic mean of the pass values whenever
\* the test name contains "read" in any case, and the write-bandwidth field
\* is that mean whenever the test name contains "write" in any case.
C13_Routing ==
    (ppc = "oltp_mixed" /\ \E k \in 1..Len(debug_text) : C13_IsPass(debug_text[k])) =>
        /\ C13_NameHas({"read", "Read", "READ"}) =>
              /\ "fio_rbw_mib_s" \in DOMAIN m
              /\ m["fio_rbw_mib_s"] = C13_Mean(debug_text)
        /\ C13_NameHas({"write", "Write", "WRITE"}) =>
              /\ "fio_wbw_mib_s" \in DOMAIN m
              /\ m["fio_wbw_mib_s"] = C13_Mean(debug_text)

\* The sum of the values of the pass lines that state the given unit.
C14_Sum(lines, unit) ==
    LET Sum(ps) == FracSum([k \in 1..Len(ps) |-> C13_Value(ps[k])])
    IN  Sum(SelectSeq(lines, LAMBDA ln : C13_IsPass(ln) /\ C13_Unit(ln) = unit))

\* The mean of the values of the pass lines in mebibytes/second: 1 MB/s is
\* 10^6 / 2^20 = 15625 / 16384 MiB/s.
C14_MeanMiB(lines) ==
    LET Mean(mib, mb, n) ==
            Frac(mib[1] * mb[2] * 16384 + mb[1] * mib[2] * 15625,
                 mib[2] * mb[2] * 16384 * n)
    IN  Mean(C14_Sum(lines, "MiB/s"), C14_Sum(lines, "MB/s"),
             Len(SelectSeq(lines, C13_IsPass)))

\* C14: every populated bandwidth field holds mebibytes/second whatever
\* unit the log used: the field that the checkmark extractor routes to is
\* the mean of the pass values, each converted from its unit to MiB/s.
C14_UnitMiB ==
    (ppc = "oltp_mixed" /\ \E k \in 1..Len(debug_text) : C13_IsPass(debug_text[k])) =>
        \A f \in {"fio_rbw_mib_s", "fio_wbw_mib_s"} \cap DOMAIN m :
            m[f] = C14_MeanMiB(debug_text)

\* ------------------------------------------------------------------ C16

\* The numerals that stand for whole numbers.
C16_Ints == Numerals \ {"2165.8", "12.5"}

\* The lexemes of the line that are among the numerals ns.
C16_In(ln, ns) == {ln[p] : p \in 1..Len(ln)} \cap ns

\* <<read, write>> of a line of the OLTP shape or of the mixed shape.
C16_IopsOf(ln) ==
    { rw \in C16_In(ln, C16_Ints) \X C16_In(ln, C16_Ints) :
        \/ ln = OltpLineOf(rw[1], rw[2])
        \/ \E total \in C16_In(ln, C16_Ints) : ln = MixedLineOf(rw[1], rw[2], total) }

\* <<rate, throughput, latency>> of a line that is a tabular row.
C16_RowOf(ln) ==
    { row \in C16_In(ln, Numerals) \X C16_In(ln, Numerals) \X C16_In(ln, Numerals) :
        ln = SpdkLineOf(row[1], row[2], row[3]) }

\* The fields of mm have the values of the numerals.
C16_Holds(mm, fields, numerals) ==
    \A k \in 1..Len(fields) :
        fields[k] \in DOMAIN mm /\ mm[fields[k]] = NumeralValue(numerals[k])

\* C16: when several lines match the OLTP shape or the mixed shape, the
\* read-IOPS and the write-IOPS samples are both those of the last matching
\* line of either shape; when several lines match the tabular row, the
\* three samples are those of the last matching row.
C16_LastMatchWins ==
    /\ ppc = "sqlite" =>
          LET Last(ks) ==
                  ks # {} =>
                      C16_Holds(m, <<"fio_riops", "fio_wiops">>,
                                CHOOSE rw \in C16_IopsOf(debug_text[MaxOf(ks)]) : TRUE)
          IN  Last({k \in 1..Len(debug_text) : C16_IopsOf(debug_text[k]) # {}})
    /\ ppc = "pass_bw" =>
          LET Last(ks) ==
                  ks # {} =>
                      C16_Holds(m, <<"spdk_iops", "spdk_mib_s", "spdk_lat_us">>,
                                CHOOSE row \in C16_RowOf(debug_text[MaxOf(ks)]) : TRUE)
          IN  Last({k \in 1..Len(debug_text) : C16_RowOf(debug_text[k]) # {}})

\* C16 witness: two different rows, then a mixed line and an OLTP line
\* with other numbers; the samples after pass 3) are those of the second
\* row and of the OLTP line.
C16_Witness ==
    /\ ppc = "sqlite"
    /\ debug_text = <<SpdkLineOf("2048", "12.5", "55"), SpdkLineOf("1024", "3", "12"),
                      MixedLineOf("100", "200", "500"), OltpLineOf("12", "55")>>
    /\ m = ("spdk_iops" :> <<1024, 1>>) @@ ("spdk_mib_s" :> <<3, 1>>)
             @@ ("spdk_lat_us" :> <<12, 1>>) @@ ("fio_riops" :> <<12, 1>>)
             @@ ("fio_wiops" :> <<55, 1>>)

\* ------------------------------------------------------------------ C17

\* The text of a log line after its full prefix.
C17_Body(ln) ==
    IF Len(ln) >= Len(FullPrefix) /\ SubSeq(ln, 1, Len(FullPrefix)) = FullPrefix
    THEN SubSeq(ln, Len(FullPrefix) + 1, Len(ln))
    ELSE ln

\* The line contains "metrc:" and "iomix" and at least one numeric token (a
\* run of digits with an optional decimal point, wherever it stands).
C17_Matches(ln) ==
    /\ \E p \in 1..Len(ln) : ln[p] = "metrc:"
    /\ \E p \in 1..Len(ln) : ln[p] = "iomix"
    /\ FindNumbers(C17_Body(ln)) # <<>>

\* The second-to-last of two or more numeric tokens, the only one otherwise.
C17_Token(nums) == IF Len(nums) = 1 THEN nums[1] ELSE nums[Len(nums) - 1]

C18_Field(lp, key, field) ==
    IF key \in DOMAIN lp.v /\ lp.v[key].t = "num"
    THEN field \in DOMAIN m /\ m[field] = lp.v[key].v
    ELSE field \notin DOMAIN m

\* C18: if the block after the first "Benchmark results:" is an object
\* whose latency_percentiles is a mapping, p50_us is its 50th_us and p99_us
\* its 99th_us when these are numbers, a missing or non-numeric value
\* leaves the field absent, and no other key of the mapping affects a field.
C18_Percentiles ==
    ppc = "fs" =>
        \A pre \in SqliteOpts, tree \in BenchTrees,
           post \in {<<>>, LoggedBlock(FullPrefix, MarkerBench, LatencyTree, "cont")} :
            (/\ debug_text = pre \o LoggedBlock(FullPrefix, MarkerBench, tree, "cont") \o post
             /\ "\"latency_percentiles\"" \in DOMAIN TreeValue(tree).v
             /\ TreeValue(tree).v["\"latency_percentiles\""].t = "dict")
                => /\ C18_Field(TreeValue(tree).v["\"latency_percentiles\""],
                                "\"50th_us\"", "p50_us")
                   /\ C18_Field(TreeValue(tree).v["\"latency_percentiles\""],
                                "\"99th_us\"", "p99_us")
                   /\ DOMAIN m \ {"p50_us", "p99_us"}
                        = IF pre = <<>> THEN {} ELSE {"tps", "eps"}

\* ------------------------------------------------------------------ C19

\* The JSON value of the content of the file, JsonFail when the file is
\* missing, unreadable, empty or holds no valid JSON.
C19_Content(fls, path) ==
    IF path \notin DOMAIN fls THEN JsonFail
    ELSE IF ~fls[path].readable \/ fls[path].text = <<>> THEN JsonFail
    ELSE json_loads(fls[path].text)

\* What the aggregate JSON throughput extractor yields on a value: the
\* fields of _fio_metrics_from_json for an object, nothing otherwise and
\* nothing when it raises.
C19_Samples(content) ==
    LET Yield(r) == IF r.raised THEN <<>> ELSE r.res
    IN  IF content.t # "dict" THEN <<>> ELSE Yield(fio_metrics_from_json(content))

\* mm2 is mm with exactly the samples res stored.
C19_Stored(mm, mm2, res) ==
    /\ DOMAIN mm2 = DOMAIN mm \cup DOMAIN res
    /\ \A f \in DOMAIN mm2 : mm2[f] = IF f \in DOMAIN res THEN res[f] ELSE mm[f]

\* C19: if the block after "Filesystem test results:" names a path in
\* fio_file_verify.json, pass 5) stores exactly the samples that the
\* aggregate JSON throughput extractor yields on the content of that file;
\* if the file is missing, unreadable, empty or no valid JSON, it stores
\* nothing, and the samples of the other extractors stay as they were.
C19_FileJson ==
    [][ppc = "fs" =>
          \A pre \in OltpOpts, path \in {"\"/tmp/a.json\"", "\"/tmp/b.json\""} :
              debug_text = pre \o LoggedBlock(FullPrefix, MarkerFs, FsTree(path), "cont")
                  => C19_Stored(m, m', C19_Samples(C19_Content(files, path)))]_vars

\* C19 witness: after an OLTP line, the block names /tmp/a.json, which
\* holds fio output for both directions; after pass 5) the four fio fields
\* are those of the file.
C19_Witness ==
    /\ ppc = "app"
    /\ debug_text = <<OltpLine>>
                      \o LoggedBlock(FullPrefix, MarkerFs, FsTree("\"/tmp/a.json\""), "cont")
    /\ files["\"/tmp/a.json\""] = [readable |-> TRUE, text |-> PrettyLines(StdoutFio, 0)]
    /\ m = ("fio_rbw_mib_s" :> <<1, 1>>) @@ ("fio_wbw_mib_s" :> <<1, 2>>)
             @@ ("fio_riops" :> <<100, 1>>) @@ ("fio_wiops" :> <<200, 1>>)

\* ------------------------------------------------------------------ C20

\* The fields for which the extractors produced a sample from the log of
\* the entry: the keys of what parse_metrics_from_debuglog returned, none
\* when there is no log.
C20_Sampled(t) ==
    IF ~t.log.found THEN {}
    ELSE DOMAIN parse_metrics_from_debuglog(IF t.name.t = "str" THEN t.name.v ELSE <<>>,
                                            t.log.text, files).m

\* The log has no line of a bandwidth shape: no checkmark pass line and no
\* line of the stdout stream.
C20_NoBandwidth(log) ==
    \A k \in 1..Len(log.text) :
        \A p \in 1..Len(log.text[k]) : log.text[k][p] \notin {"Pass", StdoutTag, "{"}

\* C20: in the record a metric field for which no extractor produced a
\* sample is None, never 0 or another value; a record built from a log
\* without bandwidth-shaped content has both bandwidth fields None.
C20_AbsentIsNone ==
    \A k \in 1..Len(rows) :
        /\ \A f \in MetricFields \ C20_Sampled(tests[k]) : rows[k][f] = PyNone
        /\ C20_NoBandwidth(tests[k].log) =>
              rows[k]["fio_rbw_mib_s"] = PyNone /\ rows[k]["fio_wbw_mib_s"] = PyNone

\* C20 witness: the record of a test whose log holds a SQLite line only has
\* tps and eps set and every other metric field, the bandwidths among
\* them, None.
C20_Witness ==
    /\ jpc = "extended"
    /\ Len(rows) = 2
    /\ tests[2].log = Log(<<SqliteLine>>)
    /\ rows[2]["tps"] = PyNum(10829, 5)
    /\ \A f \in MetricFields \ {"tps", "eps"} : rows[2][f] = PyNone

\* ------------------------------------------------------------------ C21

\* build_records_for_job(...) as one call on the test entries ts:
\* [raised, rows]; an exception in one iteration leaves the function.
RECURSIVE build_records_for_job(_, _)
build_records_for_job(ts, fls) ==
    IF ts = <<>> THEN [raised |-> FALSE, rows |-> <<>>]
    ELSE LET Iteration(before, r) ==
                IF before.raised \/ r.raised THEN [raised |-> TRUE, rows |-> <<>>]
                ELSE [raised |-> FALSE, rows |-> Append(before.rows, r.rec)]
         IN  Iteration(build_records_for_job(SubSeq(ts, 1, Len(ts) - 1), fls),
                       BuildRecord(ts[Len(ts)], fls))

\* C21: the record of a test entry depends on that entry and its own log
\* only: in a second run of the same job that differs in the log of
\* another entry only, the record of the entry exists and is the same.
C21_Independence ==
    jpc \in {"returned", "extended"} =>
        \A j \in 1..Len(tests), log2 \in JobLogs :
            LET Second(run) ==
                    \A k \in (1..Len(tests)) \ {j} :
                        ~run.raised /\ run.rows[k] = rows[k]
            IN  Second(build_records_for_job([tests EXCEPT ![j].log = log2], files))

\* ------------------------------------------------------------------ SpecScans: the loops of metric extraction, run to their end

\* A run of the embedded block extractor, of step 7 (stream, collector,
\* fio metrics) or of the passes of parse_metrics_from_debuglog.
InitScans == InitBlock \/ InitStdout \/ InitPasses

NextScans ==
    \/ eb # <<>> /\ NextBlock
    \/ cst # <<>> /\ NextStdout
    \/ ppc # "idle" /\ Next

\* The program is sequential: a loop that has a next iteration executes it.
SpecScans == InitScans /\ [][NextScans]_vars /\ WF_vars(NextScans)

\* ------------------------------------------------------------------ C22

\* Extraction has finished: the block extractor has returned, the last
\* aggregate object has been handed over, or the passes have returned or
\* raised.
C22_Finished ==
    \/ eb # <<>> /\ eb.pc = "done"
    \/ fres # <<>>
    \/ ppc \in {"returned", "raised"}

\* The passes of parse_metrics_from_debuglog, in the order of the code.
C22_PassOrder ==
    <<"spdk", "pass_bw", "oltp_mixed", "sqlite", "bench", "fs", "app", "iomix",
      "stdout_json">>

\* An upper bound of the number of steps that are left: for the block
\* extractor the lines the outer loop has not seen, or the part of the window
\* the inner loop has not seen; for the stdout stream the lines not yet
\* reconstructed and not yet collected; for the passes those not yet run.
C22_Remaining ==
    IF eb # <<>>
    THEN (IF bcut THEN 0 ELSE Len(blog) + Window + 4)
         + (CASE eb.pc = "scan" -> (Len(blog) - eb.i) + Window + 3
              [] eb.pc = "inner" ->
                    2 + (IF eb.j < EmbRangeEnd(eb.i, Len(blog))
                         THEN EmbRangeEnd(eb.i, Len(blog)) - eb.j ELSE 0)
              [] eb.pc = "final" -> 1
              [] eb.pc = "done" -> 0)
    ELSE IF cst # <<>>
    THEN 2 * (Len(slog) - sk) + (Len(sout) - ck) + (IF fres = <<>> THEN 1 ELSE 0)
    ELSE Cardinality({k \in 1..Len(C22_PassOrder) :
                        \E q \in 1..k : C22_PassOrder[q] = ppc})

\* The number of log lines of the run.
C22_Lines ==
    IF eb # <<>> THEN Len(blog) ELSE IF cst # <<>> THEN Len(slog) ELSE Len(debug_text)

\* Extraction that has not finished takes a step that changes the state.
C22_CanStep ==
    \/ eb # <<>> /\ eb.pc = "scan" /\ EmbScanStep(eb, blog, bmarker) # eb
    \/ eb # <<>> /\ eb.pc = "inner" /\ EmbInnerStep(eb, blog) # eb
    \/ eb # <<>> /\ eb.pc = "final" /\ EmbFinalStep(eb) # eb
    \/ cst # <<>> /\ sk < Len(slog)
    \/ cst # <<>> /\ sk = Len(slog) /\ ck < Len(sout)
    \/ cst # <<>> /\ sk = Len(slog) /\ ck = Len(sout) /\ LastFioJson(cst.objs) # fres
    \/ \E q \in 1..Len(C22_PassOrder) : C22_PassOrder[q] = ppc

\* C22: for every finite log, metric extraction eventually finishes: every
\* step of it lowers a natural number that is bounded by the number of log
\* lines and the lookahead window, and as long as it has not finished it
\* has a step to take, so that under the fairness of SpecScans it reaches
\* its end; the loop indices only grow, within the lines of the log and,
\* for the lookahead, within the window.
C22_Terminates ==
    /\ [](C22_Remaining \in 0..(3 * (C22_Lines + Window + 4)))
    /\ [](~C22_Finished => C22_CanStep)
    /\ [][/\ C22_Remaining' < C22_Remaining
          /\ (eb # <<>> /\ bcut' = bcut) =>
                /\ eb'.i >= eb.i /\ eb'.i <= Len(blog)
                /\ eb'.j >= eb.j /\ eb'.j <= Len(blog) /\ eb'.j <= eb'.i + Window
          /\ cst # <<>> =>
                /\ sk' >= sk /\ sk' <= Len(slog)
                /\ ck' >= ck /\ ck' <= Len(sout')]_vars

\* C22 witness: the extractor has finished on a log in which the window
\* ended the lookahead before the lines did.
C22_Witness ==
    eb # <<>> /\ eb.pc = "done" /\ eb.j = eb.i + Window /\ eb.j < Len(blog)

\* ------------------------------------------------------------------ C23

\* The lower-cased name holds one of the words.
C23_Holds(name, words) == \E p \in 1..Len(name) : Lower(name[p]) \in words

\* The suite the record built from test entry k must carry.
C23_Suite(k) ==
    LET Of(name) ==
            IF C23_Holds(name, {"dimm", "memory"}) THEN "memory"
            ELSE IF C23_Holds(name, {"storage", "nvme", "spdk", "fio"}) THEN "storage"
            ELSE "other"
    IN  Of(IF tests[k].name.t = "str" THEN tests[k].name.v ELSE <<>>)

\* C23: the suite of a record is "memory" when the lower-cased test name
\* holds dimm or memory (a storage keyword besides changes nothing),
\* otherwise "storage" when it holds storage, nvme, spdk or fio, otherwise
\* "other"; it depends on the name alone: two records of equal names carry
\* equal suites, whatever their logs.
C23_SuiteOfName ==
    /\ \A k \in 1..Len(rows) : rows[k]["suite"] = PyStr(C23_Suite(k))
    /\ \A k \in 1..Len(rows), j \in 1..Len(rows) :
           rows[k]["test_name"] = rows[j]["test_name"] => rows[k]["suite"] = rows[j]["suite"]

\* C23 witness: a job whose records are one of the memory suite, from a name
\* that holds a storage keyword too, and one of the storage suite.
C23_Witness ==
    /\ Len(rows) = 2
    /\ tests[1].name = PyStr(<<"DIMM", "_", "fio">>)
    /\ rows[1]["suite"] = PyStr("memory")
    /\ \E k \in 1..Len(rows) : rows[k]["suite"] = PyStr("storage")

\* ------------------------------------------------------------------ C24

\* C24: whatever the log and the marker, the extractor returns None or a
\* JSON object (a mapping), never an array, a number or a string.
C24_ObjectOrNone ==
    (eb # <<>> /\ eb.pc = "done") => eb.result.t \in {"none", "dict"}

\* ------------------------------------------------------------------ C25

\* C25: the accumulation after the marker line, step by step. Inside the
\* window, a blank normalized line is skipped while nothing has been
\* captured, and ends the accumulation (the lines after it are never read)
\* once something has; a normalized line } that closes a buffer holding {
\* has the buffer parsed, with the value returned at once on success and
\* the accumulation going on after a failure; any other line is appended.
\* When the accumulation has ended, at a blank line, at the end of the
\* window or of the log, the whole buffer is parsed, and a failure yields
\* None.
C25_Accumulation ==
    [][/\ (eb # <<>> /\ eb.pc = "inner" /\ eb.j >= EmbRangeEnd(eb.i, Len(blog))) =>
              eb' = [eb EXCEPT !.pc = "final"]
       /\ (eb # <<>> /\ eb.pc = "inner" /\ eb.j < EmbRangeEnd(eb.i, Len(blog))) =>
              LET Case(s, buffer) ==
                      IF s = <<>> /\ eb.payload_lines = <<>>
                      THEN eb' = [eb EXCEPT !.j = eb.j + 1]
                      ELSE IF s = <<>>
                      THEN eb' = [eb EXCEPT !.pc = "final"]
                      ELSE IF /\ s = <<"}">>
                              /\ \E k \in 1..Len(eb.payload_lines) :
                                     \E q \in 1..Len(eb.payload_lines[k]) :
                                         eb.payload_lines[k][q] = "{"
                              /\ ParseTokens(JoinTokens(buffer)) # JsonFail
                      THEN /\ eb'.pc = "done"
                           /\ eb'.result = ParseTokens(JoinTokens(buffer))
                      ELSE /\ eb'.pc = "inner"
                           /\ eb'.j = eb.j + 1
                           /\ eb'.payload_lines = buffer
                  Line(s) == Case(s, Append(eb.payload_lines, s))
              IN  Line(strip_stdlog(blog[eb.j + 1]))
       /\ (eb # <<>> /\ eb.pc = "final") =>
              /\ eb'.pc = "done"
              /\ eb'.payload_lines = eb.payload_lines
              /\ eb'.result = IF ParseTokens(JoinTokens(eb.payload_lines)) # JsonFail
                              THEN ParseTokens(JoinTokens(eb.payload_lines))
                              ELSE PyNone]_vars

\* C25 witness: a blank line after captured payload has ended the
\* accumulation inside the window, with lines of the log left unread.
C25_Witness ==
    /\ eb # <<>> /\ eb.pc = "final"
    /\ eb.payload_lines # <<>>
    /\ eb.j < EmbRangeEnd(eb.i, Len(blog))
    /\ strip_stdlog(blog[eb.j + 1]) = <<>>
    /\ eb.j + 1 < Len(blog)

\* ------------------------------------------------------------------ C26

\* C26: when the text after the marker on the first marker line is by
\* itself a JSON object, the extractor returns that object, whatever lines
\* follow.
C26_OneLineObject ==
    (eb # <<>> /\ eb.pc = "done" /\ \E p \in 1..Len(blog) : MarkerIn(bmarker, blog[p])) =>
        LET Returned(obj) == obj.t = "dict" => eb.result = obj
            After(tail) == tail # <<>> => Returned(json_loads(<<tail>>))
            First(p) == After(MarkerTail(blog[p], bmarker))
        IN  First(MinOf({p \in 1..Len(blog) : MarkerIn(bmarker, blog[p])}))

\* ------------------------------------------------------------------ C27

\* The objects collected so far that have a "jobs" key, by position.
C27_WithJobs == {k \in 1..Len(cst.objs) : "\"jobs\"" \in DOMAIN cst.objs[k].v}

\* C27: of the objects collected from the stdout stream only the last one
\* that has "jobs" gives metrics: what _fio_metrics_from_json returned is
\* what that object yields by itself, also when it yields nothing and an
\* earlier object would have yielded something, and nothing at all is
\* returned when it raises.
C27_OnlyLastObject ==
    (fres # <<>> /\ fres.called) =>
        /\ C27_WithJobs # {}
        /\ fres.raised => fres.res = <<>>
        /\ ~fres.raised => fres.res = C15_Yield(cst.objs[MaxOf(C27_WithJobs)])

\* C27 witness: the last object with "jobs" yielded nothing, and an earlier
\* object with "jobs" yields a read bandwidth by itself.
C27_Witness ==
    /\ fres # <<>> /\ fres.called /\ ~fres.raised
    /\ fres.res = <<>>
    /\ \E k \in C27_WithJobs :
           /\ k < MaxOf(C27_WithJobs)
           /\ "fio_rbw_mib_s" \in DOMAIN C15_Yield(cst.objs[k])

\* ------------------------------------------------------------------ C28

\* The samples the pass about to run produces from the log by itself.
C28_Samples ==
    CASE ppc = "spdk" -> SpdkPass(<<>>, debug_text)
      [] ppc = "pass_bw" -> PassBwPass(<<>>, test_name, debug_text)
      [] ppc = "oltp_mixed" -> OltpMixedPass(<<>>, debug_text)
      [] ppc = "sqlite" -> SqlitePass(<<>>, debug_text)
      [] ppc = "bench" -> BenchPass(<<>>, debug_text)
      [] ppc = "fs" -> FsPass(<<>>, debug_text, files)
      [] ppc = "app" -> <<>>
      [] ppc = "iomix" -> IomixPass(<<>>, debug_text)
      [] ppc = "stdout_json" -> StdoutJsonPass(<<>>, debug_text).m

\* C28: a pass writes the fields for which it produced a sample and leaves
\* every other field of the mapping as it was: a field set by an earlier
\* pass and not produced by this one keeps its value.
C28_PerFieldOverwrite ==
    [][LET Frame(samples) ==
               /\ DOMAIN m' = (DOMAIN m) \cup (DOMAIN samples)
               /\ \A f \in DOMAIN m' :
                      m'[f] = IF f \in DOMAIN samples THEN samples[f] ELSE m[f]
       IN  (ppc \notin {"idle", "returned", "raised"}) => Frame(C28_Samples)]_vars

\* C28 witness: an OLTP line set both IOPS fields, and an aggregate object
\* with a read direction only replaced the read IOPS and left the write
\* IOPS of the OLTP line.
C28_Witness ==
    /\ ppc = "returned"
    /\ {"fio_riops", "fio_wiops"} \subseteq DOMAIN OltpMixedPass(<<>>, debug_text)
    /\ "fio_riops" \in DOMAIN StdoutJsonPass(<<>>, debug_text).m
    /\ "fio_wiops" \notin DOMAIN StdoutJsonPass(<<>>, debug_text).m
    /\ m["fio_riops"] = StdoutJsonPass(<<>>, debug_text).m["fio_riops"]
    /\ m["fio_riops"] # OltpMixedPass(<<>>, debug_text)["fio_riops"]
    /\ m["fio_wiops"] = OltpMixedPass(<<>>, debug_text)["fio_wiops"]

\* ------------------------------------------------------------------ C29

\* The record build_records_for_job makes for a test of this name before
\* the metrics are merged into it.
C29_Record ==
    TestRecord("job-1", "/results/job-1", classify_suite(test_name), test_name,
               PyStr("PASS"), <<3, 2>>, PyNone, PyNone)

\* C29: the keys of the mapping parse_metrics_from_debuglog builds are among
\* the eleven metric fields of TestRecord, at every pass and at the return,
\* so that setting them as attributes of the record adds no field to it and
\* leaves the identity, suite, status, duration and time fields as they
\* were.
C29_DeclaredFields ==
    /\ Cardinality(MetricFields) = 11
    /\ MetricFields \subseteq DOMAIN C29_Record
    /\ DOMAIN m \subseteq MetricFields
    /\ ppc = "returned" =>
           /\ DOMAIN SetAttrs(C29_Record, m) = DOMAIN C29_Record
           /\ \A a \in (DOMAIN C29_Record) \ MetricFields :
                  SetAttrs(C29_Record, m)[a] = C29_Record[a]

\* C29 witness: a mapping with all eleven keys has been returned.
C29_Witness ==
    /\ ppc = "returned"
    /\ DOMAIN m = MetricFields

\* ------------------------------------------------------------------ SpecLock: StorageUserspaceTests of several test processes on one device

\* Number of test processes that use the same lock file.
NumProcs == 2

Procs == 1..NumProcs

InitLock ==
    /\ tpc = [p \in Procs |-> "setUp"]
    /\ flock = 0
    /\ spdk_setup = [p \in Procs |-> FALSE]
    /\ lock_fd = [p \in Procs |-> FALSE]
    /\ setup_sh \in BOOLEAN
    /\ StripIdle
    /\ StreamIdle
    /\ BlockIdle
    /\ PipeIdle
    /\ JobIdle
    /\ CollectIdle

\* setUp up to the perf tool: self.cancel("SPDK perf tool not found or not
\* compiled") (or one of the cancels before it) leaves setUp before
\* self.spdk_setup is set; the framework then runs tearDown.
SetUpNoPerf(p) ==
    /\ tpc[p] = "setUp"
    /\ tpc' = [tpc EXCEPT ![p] = "tearDown"]
    /\ UNCHANGED <<flock, spdk_setup, lock_fd, setup_sh, NotLock>>

\* self.spdk_setup = os.path.join(SPDK_PATH, 'scripts/setup.sh'); if not
\* os.path.exists(self.spdk_setup): self.cancel("SPDK setup script missing")
SetUpScript(p) ==
    /\ tpc[p] = "setUp"
    /\ spdk_setup' = [spdk_setup EXCEPT ![p] = TRUE]
    /\ tpc' = [tpc EXCEPT ![p] = IF setup_sh THEN "target" ELSE "tearDown"]
    /\ UNCHANGED <<flock, lock_fd, setup_sh, NotLock>>

\* The target selection: self.cancel("SPDK tests require explicit target:
\* ...") or self.cancel("Could not determine PCIe address") leaves setUp
\* before the lock is taken.
SetUpCancel(p) ==
    /\ tpc[p] = "target"
    /\ tpc' = [tpc EXCEPT ![p] = "tearDown"]
    /\ UNCHANGED <<flock, spdk_setup, lock_fd, setup_sh, NotLock>>

\* self._lock_fd = acquire_device_lock(...): fcntl.flock(fd.fileno(),
\* fcntl.LOCK_EX) returns once no other process holds the lock.
SetUpAcquire(p) ==
    /\ tpc[p] = "target"
    /\ flock = 0
    /\ flock' = p
    /\ lock_fd' = [lock_fd EXCEPT ![p] = TRUE]
    /\ tpc' = [tpc EXCEPT ![p] = "status"]
    /\ UNCHANGED <<spdk_setup, setup_sh, NotLock>>

\* setup.sh status: the device is bound already (or process.run raised and
\* the exception was logged) and setUp returns, or setup.sh is started to
\* bind the device.
SetUpStatus(p) ==
    /\ tpc[p] = "status"
    /\ \E nxt \in {"test", "bind"} : tpc' = [tpc EXCEPT ![p] = nxt]
    /\ UNCHANGED <<flock, spdk_setup, lock_fd, setup_sh, NotLock>>

\* process.run(f"{self.spdk_setup}", ...) has run; whatever the status
\* shows afterwards setUp ends: normally, or with the cancel "Device not
\* properly bound to SPDK" when the except clause around it does not catch
\* it.
SetUpBind(p) ==
    /\ tpc[p] = "bind"
    /\ \E nxt \in {"test", "tearDown"} : tpc' = [tpc EXCEPT ![p] = nxt]
    /\ UNCHANGED <<flock, spdk_setup, lock_fd, setup_sh, NotLock>>

\* The test method, after which the framework runs tearDown.
RunTest(p) ==
    /\ tpc[p] = "test"
    /\ tpc' = [tpc EXCEPT ![p] = "tearDown"]
    /\ UNCHANGED <<flock, spdk_setup, lock_fd, setup_sh, NotLock>>

\* tearDown: if not hasattr(self, 'spdk_setup'): return; if
\* os.path.exists(reset_script): process.run(f"{reset_script} reset", ...)
TearDownEnter(p) ==
    /\ tpc[p] = "tearDown"
    /\ tpc' = [tpc EXCEPT ![p] = IF ~spdk_setup[p] THEN "done"
                                 ELSE IF setup_sh THEN "reset" ELSE "release"]
    /\ UNCHANGED <<flock, spdk_setup, lock_fd, setup_sh, NotLock>>

\* setup.sh reset has run (or raised, which is logged).
TearDownReset(p) ==
    /\ tpc[p] = "reset"
    /\ tpc' = [tpc EXCEPT ![p] = "release"]
    /\ UNCHANGED <<flock, spdk_setup, lock_fd, setup_sh, NotLock>>

\* if hasattr(self, "_lock_fd") and self._lock_fd:
\*     release_device_lock(self.log, self._lock_fd)
TearDownRelease(p) ==
    /\ tpc[p] = "release"
    /\ flock' = IF lock_fd[p] /\ flock = p THEN 0 ELSE flock
    /\ tpc' = [tpc EXCEPT ![p] = "done"]
    /\ UNCHANGED <<spdk_setup, lock_fd, setup_sh, NotLock>>

NextLock ==
    \E p \in Procs :
        \/ SetUpNoPerf(p) \/ SetUpScript(p) \/ SetUpCancel(p) \/ SetUpAcquire(p)
        \/ SetUpStatus(p) \/ SetUpBind(p) \/ RunTest(p)
        \/ TearDownEnter(p) \/ TearDownReset(p) \/ TearDownRelease(p)

SpecLock == InitLock /\ [][NextLock]_vars

\* ------------------------------------------------------------------ C30

\* C30: a test process runs setup.sh, to bind or to reset, only while it
\* holds the device lock, so never while another process holds it; and a
\* process that has ended tearDown holds no lock.
C30_SetupUnderLock ==
    \A p \in Procs :
        /\ tpc[p] \in {"bind", "reset"} => flock = p
        /\ tpc[p] = "done" => flock # p

====
